---- MODULE Spec2Model ----
(***************************************************************************)
(* Protocol engine of the CR35 driver (CR35Device): command queue and      *)
(* dispatcher, token table, receive path with the fragment reassembler,    *)
(* and the session state machine.  The device, the TCP stream and the      *)
(* user are the environment.                                               *)
(***************************************************************************)
EXTENDS Integers, Sequences, FiniteSets, TLC

(***************************************************************************)
(* Program constants (CR35Utils.h, CR35Device.h).                          *)
(***************************************************************************)
TIMEOUT_MS == 2000

HEADER_SIZE == 14

PACKET_UNKNOWN == 0

PACKET_READ_TOKEN == 3

PACKET_READ_DATA == 16

PACKET_COMMAND == 17

TYPE_UNKNOWN == 0

TYPE_U32 == 2

TYPE_STRING == 7

TYPE_U16 == 11

TYPE_BLOB == 8

STATE_UNKNOWN == 0

STATE_READY == 2

STATE_SCANNING == 4

STATE_STOPPING == 5

STATE_WAITING == 6

DATA_MARKER_IMAGE_END == 65531

DATA_MARKER_CONFIG == 65532

DATA_MARKER_NOP == 65533

DATA_MARKER_START == 65534

DATA_MARKER_GAP == 65535

\* sizeof(uint16_t)
UINT16_SIZE == 2

\* the least control marker: a word below it is a pixel
FIRST_MARKER == 65529

\* a pixel of the frame that no segment covers
WHITE == 65535

BLOCK_SIZE == 65536

MAX_CHUNK_SIZE == BLOCK_SIZE - HEADER_SIZE

TOKEN_REQUESTS ==
  << "Connect", "Disconnect", "UserId", "SystemDate", "ImageData", "Start",
     "Stop", "Mode", "PollingOnly", "StopRequest", "SystemState", "DeviceId",
     "Erasor", "Version", "ModeList" >>

(***************************************************************************)
(* Bounds of the model.                                                    *)
(***************************************************************************)
\* environment irregularities per run: a slow or lost reply, a split delivery,
\* a connection the peer closes
MaxFaults == 1

\* user requests (connect, disconnect, start, stop) that are not refused, plus
\* irregularities, per run
MaxEvents == 3

\* expiries of the image-data timer per run
MaxPolls == 2

(***************************************************************************)
(* Bytes and big-endian fields.                                            *)
(***************************************************************************)
Min(a, b) == IF a < b THEN a ELSE b

BE16(v) == << (v \div 256) % 256, v % 256 >>

\* A uint32_t is the pair << high 16 bits, low 16 bits >>.
ToU32(n) == << n \div 65536, n % 65536 >>

\* the value of a uint32_t below 2^31
FromU32(u) == u[1] * 65536 + u[2]

\* (n + u) % 2^32, for 0 <= n < 2^16
AddU32(n, u) ==
  LET lo == u[2] + n
  IN << (u[1] + lo \div 65536) % 65536, lo % 65536 >>

\* n < u, for an int n >= 0
LessU32(n, u) ==
  \/ n \div 65536 < u[1]
  \/ n \div 65536 = u[1] /\ n % 65536 < u[2]

BE32(u) == BE16(u[1]) \o BE16(u[2])

\* qFromBigEndian<uint16_t>(ptr + off)
FromBE16(data, off) == data[off + 1] * 256 + data[off + 2]

\* qFromBigEndian<uint32_t>(ptr + off)
FromBE32(data, off) == << FromBE16(data, off), FromBE16(data, off + 2) >>

\* qFromLittleEndian<uint16_t>(ptr + off)
FromLE16(data, off) == data[off + 1] + data[off + 2] * 256

\* QByteArray::sliced(pos, n)
sliced(data, pos, n) == SubSeq(data, pos + 1, pos + n)

(***************************************************************************)
(* Command (CR35Device.h).  A QVariant is a record: t is its kind, i its   *)
(* integer and s its string.                                               *)
(***************************************************************************)
NoValue == [t |-> "invalid", i |-> 0, s |-> ""]

IntValue(v) == [t |-> "int", i |-> v, s |-> ""]

StrValue(v) == [t |-> "string", i |-> 0, s |-> v]

\* Command()
EmptyCommand == [name |-> "", packet |-> PACKET_UNKNOWN, type |-> TYPE_UNKNOWN, value |-> NoValue]

\* Command(n, p = PACKET_READ_DATA)
ReadData(n) == [name |-> n, packet |-> PACKET_READ_DATA, type |-> TYPE_UNKNOWN, value |-> NoValue]

ReadToken(n) == [name |-> n, packet |-> PACKET_READ_TOKEN, type |-> TYPE_UNKNOWN, value |-> NoValue]

\* Command(n, t, v)
Cmd(n, t, v) == [name |-> n, packet |-> PACKET_COMMAND, type |-> t, value |-> v]

\* Command::operator==
CommandEq(a, b) ==
  a.name = b.name /\ a.packet = b.packet /\ a.type = b.type /\ a.value = b.value

(***************************************************************************)
(* Inbound header and the fragment reassembler.                            *)
(***************************************************************************)
ZeroHeader ==
  [flags |-> 0, packetType |-> 0, block |-> 0, token |-> ToU32(0), size |-> ToU32(0),
   mode |-> 0]

parseHeader(data) ==
  IF Len(data) < HEADER_SIZE THEN ZeroHeader
  ELSE [flags |-> data[1], packetType |-> data[2], block |-> FromBE16(data, 2),
        token |-> FromBE32(data, 4), size |-> FromBE32(data, 8),
        mode |-> FromBE16(data, 12)]

\* variant: the loop does not step over the header after a full chunk
RECURSIVE FragmentSlicesNoSkip(_, _)
FragmentSlicesNoSkip(offset, endOfData) ==
  IF offset >= endOfData THEN << >>
  ELSE LET chunkSize == Min(endOfData - offset, MAX_CHUNK_SIZE)
       IN << [pos |-> offset, n |-> chunkSize] >>
            \o FragmentSlicesNoSkip(offset + chunkSize, endOfData)

\* the while loop of the fragmented branch: the (pos, n) of every chunk copied
RECURSIVE FragmentSlices(_, _)
FragmentSlices(offset, endOfData) ==
  IF offset >= endOfData THEN << >>
  ELSE LET bytesRemaining == endOfData - offset
           chunkSize == Min(bytesRemaining, MAX_CHUNK_SIZE)
           next == offset + chunkSize
           skip == IF chunkSize = MAX_CHUNK_SIZE /\ next < endOfData THEN HEADER_SIZE ELSE 0
       IN << [pos |-> offset, n |-> chunkSize] >> \o FragmentSlices(next + skip, endOfData)

\* the (pos, n) pieces of a buffer of dataSize bytes that make up the payload
PayloadSlices(dataSize, mode) ==
  IF mode = 8 THEN FragmentSlices(HEADER_SIZE, dataSize - HEADER_SIZE)
  ELSE LET payloadLen == dataSize - (HEADER_SIZE * 2)
       IN IF payloadLen > 0 THEN << [pos |-> HEADER_SIZE, n |-> payloadLen] >> ELSE << >>

RECURSIVE JoinSlices(_, _)
JoinSlices(data, slices) ==
  IF slices = << >> THEN << >>
  ELSE sliced(data, Head(slices).pos, Head(slices).n) \o JoinSlices(data, Tail(slices))

\* the first early return of getReadDataPayload, negated:
\* data.size() >= HEADER_SIZE + header.size
EnoughBytes(dataSize, size) == ~ LessU32(dataSize, AddU32(HEADER_SIZE, size))

\* the two early returns of getReadDataPayload: FALSE is "wait for more data"
ResponseComplete(data, header) ==
  /\ EnoughBytes(Len(data), header.size)
  /\ LET footerHeader == parseHeader(sliced(data, Len(data) - HEADER_SIZE, HEADER_SIZE))
     IN ~ (\/ footerHeader.flags # 0
           \/ footerHeader.packetType # 0
           \/ footerHeader.block # 0
           \/ footerHeader.token # header.token)

\* getReadDataPayload: its result and its output parameter
getReadDataPayload(data, header) ==
  IF ResponseComplete(data, header)
  THEN [ok |-> TRUE, payload |-> JoinSlices(data, PayloadSlices(Len(data), header.mode))]
  ELSE [ok |-> FALSE, payload |-> << >>]

(***************************************************************************)
(* The image stream parser (CR35Utils.h, CR35Device::processImageData).    *)
(* The buffer is a sequence of bytes and a pointer into it is a byte       *)
(* offset.  The frame holds the words a little-endian host reads from img. *)
(***************************************************************************)
\* a uint16_t: the value after the conversion
ToU16(v) == v % 65536

\* the bytes of a little-endian 16-bit word
LE16(v) == << v % 256, (v \div 256) % 256 >>

\* a null pixelDataPtr; a pointer that is set is << offset >>
nullptr == << >>

\* PixelSegment{}.  pixels is not a member of the struct: it lists the words
\* that were counted in pixelCount, for the properties
EmptySegment == [xStart |-> 0, pixelDataPtr |-> nullptr, pixelCount |-> 0, pixels |-> << >>]

\* ScanLine{}
EmptyScanLine == [segments |-> << >>, endX |-> 0]

\* LineAssembler{}
NewLineAssembler ==
  [image |-> << >>, currentLine |-> EmptyScanLine, currentSeg |-> EmptySegment,
   inLine |-> FALSE, x |-> 0]

\* variant: the open segment is added to the line and stays open
flushSegmentKeepOpen(a) ==
  [a EXCEPT !.currentLine.segments =
              IF a.currentSeg.pixelDataPtr # nullptr /\ a.currentSeg.pixelCount > 0
              THEN Append(@, a.currentSeg) ELSE @]

\* LineAssembler::flushSegment
flushSegment(a) ==
  [a EXCEPT !.currentLine.segments =
              IF a.currentSeg.pixelDataPtr # nullptr /\ a.currentSeg.pixelCount > 0
              THEN Append(@, a.currentSeg) ELSE @,
            !.currentSeg = EmptySegment]

\* LineAssembler::flushLine
flushLine(a) ==
  IF ~ a.inLine THEN a
  ELSE LET f == flushSegment(a)
       IN [f EXCEPT !.image = IF f.currentLine.segments # << >>
                              THEN Append(@, [f.currentLine EXCEPT !.endX = a.x])
                              ELSE @,
                    !.currentLine = EmptyScanLine,
                    !.inLine = FALSE,
                    !.x = 0]

\* variant: the START case leaves the line before it unflushed
StartMarkerDropsLine(a, leftX) ==
  [a EXCEPT !.currentLine = EmptyScanLine, !.currentSeg = EmptySegment,
            !.inLine = TRUE, !.x = leftX]

\* the START case, its operand read
StartMarker(a, leftX) ==
  [flushLine(a) EXCEPT !.currentLine = EmptyScanLine, !.currentSeg = EmptySegment,
                       !.inLine = TRUE, !.x = leftX]

\* the GAP case inside a line, its operand read
GapMarker(a, gap) == [flushSegment(a) EXCEPT !.x = ToU16(a.x + gap)]

\* a pixel word at offset at, with parsingPixels set and a line open
PixelWord(a, at, word) ==
  [a EXCEPT !.currentSeg =
              [xStart |-> IF @.pixelDataPtr = nullptr THEN a.x ELSE @.xStart,
               pixelDataPtr |-> IF @.pixelDataPtr = nullptr THEN << at >>
                                ELSE @.pixelDataPtr,
               pixelCount |-> @.pixelCount + 1,
               pixels |-> Append(@.pixels, word)],
            !.x = ToU16(a.x + 1)]

\* one pass of the while loop of processImageData.  parseJsonConfig's result
\* pixLine is used for a log line only and is left out.
ParseWord(data, s) ==
  LET word == FromLE16(data, s.ptr)
      ptr == s.ptr + UINT16_SIZE
      end == Len(data)
      a == s.assembler
      operand == FromLE16(data, ptr)
      t == [s EXCEPT !.ptr = ptr]
  IN IF word >= FIRST_MARKER
     THEN CASE word = DATA_MARKER_START ->
                 IF ptr + UINT16_SIZE > end THEN t
                 ELSE [ptr |-> ptr + UINT16_SIZE, parsingPixels |-> TRUE,
                       assembler |-> StartMarker(a, operand)]
            [] word = DATA_MARKER_GAP ->
                 IF ptr + UINT16_SIZE > end THEN t
                 ELSE IF a.inLine
                      THEN [ptr |-> ptr + UINT16_SIZE, parsingPixels |-> TRUE,
                            assembler |-> GapMarker(a, operand)]
                      ELSE [t EXCEPT !.ptr = ptr + UINT16_SIZE]
            [] word = DATA_MARKER_CONFIG ->
                 IF ptr + UINT16_SIZE > end THEN t
                 ELSE IF ptr + UINT16_SIZE + operand <= end
                      THEN [t EXCEPT !.ptr = ptr + UINT16_SIZE + operand]
                      ELSE [t EXCEPT !.ptr = end]
            [] word = DATA_MARKER_NOP -> t
            [] word = DATA_MARKER_IMAGE_END ->
                 [t EXCEPT !.assembler = flushLine(a), !.parsingPixels = FALSE]
            [] OTHER -> t
     ELSE IF s.parsingPixels /\ a.inLine
          THEN [t EXCEPT !.assembler = PixelWord(a, s.ptr, word)]
          ELSE t

\* the while loop of processImageData
RECURSIVE ParseLoop(_, _)
ParseLoop(data, s) ==
  IF s.ptr + UINT16_SIZE > Len(data) THEN s
  ELSE ParseLoop(data, ParseWord(data, s))

\* variant: no flushLine after the loop
AssembleImageOpenLineLost(data) ==
  ParseLoop(data, [ptr |-> 0, parsingPixels |-> FALSE,
                   assembler |-> NewLineAssembler]).assembler.image

\* the lines assembled from the buffer: the loop and the flushLine after it
AssembleImage(data) ==
  flushLine(ParseLoop(data, [ptr |-> 0, parsingPixels |-> FALSE,
                             assembler |-> NewLineAssembler]).assembler).image

\* the segments the bounding box is computed over
BoxSegments(image) ==
  {seg \in UNION {{image[y].segments[i] : i \in DOMAIN image[y].segments} :
                     y \in DOMAIN image} : seg.pixelCount > 0}

\* minLeft after the bounding-box loop, for an image that has a segment
MinLeft(image) ==
  CHOOSE m \in {seg.xStart : seg \in BoxSegments(image)} :
    \A seg \in BoxSegments(image) : m <= seg.xStart

\* maxRight after the bounding-box loop
MaxRight(image) ==
  CHOOSE m \in {0} \cup {seg.xStart + seg.pixelCount : seg \in BoxSegments(image)} :
    \A seg \in BoxSegments(image) : seg.xStart + seg.pixelCount <= m

\* variant: the copy leaves cells alone that an earlier segment has written
CopySegmentKeepsEarlier(img, data, base, seg, minLeft, width) ==
  LET offset == seg.xStart - minLeft
      copyCount == Min(seg.pixelCount, width - offset)
  IN IF seg.pixelDataPtr = nullptr \/ seg.pixelCount <= 0 \/ offset < 0 \/ copyCount <= 0
     THEN img
     ELSE [k \in DOMAIN img |->
             IF k - 1 >= base + offset /\ k - 1 < base + offset + copyCount /\ img[k] = WHITE
             THEN FromLE16(data, seg.pixelDataPtr[1] + UINT16_SIZE * (k - 1 - base - offset))
             ELSE img[k]]

\* memcpy(dst + offset, seg.pixelDataPtr, copyCount * sizeof(uint16_t)) with
\* dst = img + base
CopySegment(img, data, base, seg, minLeft, width) ==
  LET offset == seg.xStart - minLeft
      copyCount == Min(seg.pixelCount, width - offset)
  IN IF seg.pixelDataPtr = nullptr \/ seg.pixelCount <= 0 \/ offset < 0 \/ copyCount <= 0
     THEN img
     ELSE [k \in DOMAIN img |->
             IF k - 1 >= base + offset /\ k - 1 < base + offset + copyCount
             THEN FromLE16(data, seg.pixelDataPtr[1] + UINT16_SIZE * (k - 1 - base - offset))
             ELSE img[k]]

\* the loop over the segments of a line, from segment i on
RECURSIVE CopyLine(_, _, _, _, _, _, _)
CopyLine(img, data, base, segments, i, minLeft, width) ==
  IF i > Len(segments) THEN img
  ELSE CopyLine(CopySegment(img, data, base, segments[i], minLeft, width),
                data, base, segments, i + 1, minLeft, width)

\* the loop over the lines, from line y (counted from 0) on
RECURSIVE CopyLines(_, _, _, _, _, _)
CopyLines(img, data, image, y, minLeft, width) ==
  IF y >= Len(image) THEN img
  ELSE CopyLines(CopyLine(img, data, y * width, image[y + 1].segments, 1, minLeft, width),
                 data, image, y + 1, minLeft, width)

\* nothing was emitted
NoFrame == [emitted |-> FALSE, img |-> << >>, width |-> 0, height |-> 0]

\* the arguments of imageDataReceived(img, width, height), if it is emitted
Rasterize(data, image) ==
  IF image = << >> THEN NoFrame
  ELSE IF MaxRight(image) = 0 THEN NoFrame
  ELSE LET minLeft == MinLeft(image)
           width == MaxRight(image) - minLeft
           height == Len(image)
           white == [k \in 1..(width * height) |-> WHITE]
       IN [emitted |-> TRUE, img |-> CopyLines(white, data, image, 0, minLeft, width),
           width |-> width, height |-> height]

\* processImageData on the buffer data: the lines it assembled and the frame
processImageData(data) ==
  IF data = << >> THEN [image |-> << >>, frame |-> NoFrame]
  ELSE LET image == AssembleImage(data)
       IN [image |-> image, frame |-> Rasterize(data, image)]

\* processImageData did not run
NoImageRun == [image |-> << >>, frame |-> NoFrame]

(***************************************************************************)
(* State.                                                                  *)
(***************************************************************************)
VARIABLES
  socketState,              \* m_socket.state()
  m_buffer,                 \* receive buffer
  m_imageData,              \* image buffer
  m_tokens,                 \* token table: name -> id, on the names it contains
  m_currentCommand,         \* in-flight slot
  m_commands,               \* command queue
  sinceLastCommand,         \* now - m_lastCommandTime in ms, saturating at TIMEOUT_MS
  m_state, m_started, m_wasScanning,
  dataTimerActive,          \* m_dataTimer.isActive()
  commandQueueTimerActive,  \* m_commandQueueTimer.isActive()
  wire,                     \* requests the device holds and has not answered
  rx,                       \* bytes of the device's reply not yet read from the socket
  sent,                     \* history: commands handed to the transport this session
  appended,                 \* history: commands appended to the queue this session
  parserRuns,               \* history: image buffers processImageData was called on
  ev,                       \* the last operation and what it did
  disconnectWait,           \* disconnectFromDevice is inside its wait for stopped()
  faults, userOps, polls,   \* counters for the bounds
  reassembly,               \* a call of getReadDataPayload by sizes: its inputs and
                            \* the chunks it copied
  scan,                     \* the items of the image stream a scanner produced
  imageRun,                 \* the last run of processImageData: the lines it
                            \* assembled and the frame it emitted
  m_clientId,               \* the six bytes drawn by connectToDevice
  written                   \* the bytes of the last m_socket.write

vars ==
  << socketState, m_buffer, m_imageData, m_tokens, m_currentCommand, m_commands,
     sinceLastCommand, m_state, m_started, m_wasScanning, dataTimerActive,
     commandQueueTimerActive, wire, rx, sent, appended, parserRuns, ev,
     disconnectWait, faults, userOps, polls, reassembly, scan, imageRun,
     m_clientId, written >>

Modes == {5, 6}

\* ev: the operation, the branch it took, the in-flight command it found, the
\* signals it emitted, the commands it passed to enqueueCommand and, for
\* readData, the receive buffer it looked at, the payload it extracted and the
\* list it stored in m_modeList
Event(op) ==
  [op |-> op, handler |-> "none", cmd |-> EmptyCommand, signals |-> {},
   enq |-> << >>, buf |-> << >>, payload |-> << >>, modeList |-> << >>]

NoEvent == Event("none")

\* the ids connectToDevice can draw (six bytes, each QRandomGenerator::bounded(256)),
\* cut down to one: the id appears in the bytes of ReadToken and ReadData packets
\* and nowhere else
ClientIds == { << 17, 34, 51, 68, 85, 102 >> }

\* no call of getReadDataPayload is followed by sizes
NoReassembly ==
  [dataSize |-> 0, size |-> 0, mode |-> 0, done |-> FALSE, accepted |-> FALSE,
   slices |-> << >>]

Init ==
  /\ socketState = "Unconnected"
  /\ m_buffer = << >>
  /\ m_imageData = << >>
  /\ m_tokens = << >>
  /\ m_currentCommand = EmptyCommand
  /\ m_commands = << >>
  /\ sinceLastCommand = 0
  /\ m_state = STATE_UNKNOWN
  /\ m_started = FALSE
  /\ m_wasScanning = FALSE
  /\ dataTimerActive = FALSE
  /\ commandQueueTimerActive = FALSE
  /\ wire = << >>
  /\ rx = << >>
  /\ sent = << >>
  /\ appended = << >>
  /\ parserRuns = << >>
  /\ scan = << >>
  /\ imageRun = NoImageRun
  /\ m_clientId = << >>
  /\ written = << >>
  /\ ev = NoEvent
  /\ disconnectWait = FALSE
  /\ faults = 0
  /\ userOps = 0
  /\ polls = 0
  /\ reassembly = NoReassembly

(***************************************************************************)
(* Token table and queue.                                                  *)
(***************************************************************************)
\* getTokenId: m_tokens.value(token, -1) as uint32_t
getTokenId(token) == IF token \in DOMAIN m_tokens THEN m_tokens[token] ELSE << 65535, 65535 >>

(***************************************************************************)
(* Outbound packets (createCommandPacket, createRequestTokenPacket,        *)
(* createReadDataPacket).  A text is written as a TLA+ string in the model; *)
(* Chars gives what it stands for.                                         *)
(***************************************************************************)
\* the units of the text s: the UTF-16 code units of a QString, the bytes of a
\* QByteArray.  "<now, UTC>" is the date init formats, here one sample of it.
Chars(s) ==
  CASE s = "Connect" -> << 67, 111, 110, 110, 101, 99, 116 >>
    [] s = "Disconnect" -> << 68, 105, 115, 99, 111, 110, 110, 101, 99, 116 >>
    [] s = "UserId" -> << 85, 115, 101, 114, 73, 100 >>
    [] s = "SystemDate" -> << 83, 121, 115, 116, 101, 109, 68, 97, 116, 101 >>
    [] s = "ImageData" -> << 73, 109, 97, 103, 101, 68, 97, 116, 97 >>
    [] s = "Start" -> << 83, 116, 97, 114, 116 >>
    [] s = "Stop" -> << 83, 116, 111, 112 >>
    [] s = "Mode" -> << 77, 111, 100, 101 >>
    [] s = "PollingOnly" -> << 80, 111, 108, 108, 105, 110, 103, 79, 110, 108, 121 >>
    [] s = "StopRequest" -> << 83, 116, 111, 112, 82, 101, 113, 117, 101, 115, 116 >>
    [] s = "SystemState" -> << 83, 121, 115, 116, 101, 109, 83, 116, 97, 116, 101 >>
    [] s = "DeviceId" -> << 68, 101, 118, 105, 99, 101, 73, 100 >>
    [] s = "Erasor" -> << 69, 114, 97, 115, 111, 114 >>
    [] s = "Version" -> << 86, 101, 114, 115, 105, 111, 110 >>
    [] s = "ModeList" -> << 77, 111, 100, 101, 76, 105, 115, 116 >>
    [] s = "user@BACKUP" -> << 117, 115, 101, 114, 64, 66, 65, 67, 75, 85, 80 >>
    [] s = "<now, UTC>" -> << 83, 117, 110, 44, 32, 48, 49, 32, 78, 111, 118, 32, 50, 48, 50, 54, 32, 49, 48, 58, 48, 48, 58, 48, 48, 32, 71, 77, 84 >>
    [] s = "cafe acute" -> << 99, 97, 102, 233 >>
    [] s = "raw DE AD 00 EF" -> << 222, 173, 0, 239 >>
    [] s = "Unlisted" -> << 85, 110, 108, 105, 115, 116, 101, 100 >>
    [] s = "[Mode-{" -> << 91, 77, 111, 100, 101, 45, 123 >>
    [] s = "[Mode-" -> << 91, 77, 111, 100, 101, 45 >>
    [] s = "}]" -> << 125, 93 >>
    [] s = "00000001" -> << 48, 48, 48, 48, 48, 48, 48, 49 >>
    [] s = "00000002" -> << 48, 48, 48, 48, 48, 48, 48, 50 >>
    [] s = "ModeName_en" -> << 77, 111, 100, 101, 78, 97, 109, 101, 95, 101, 110 >>
    [] s = "ModeName" -> << 77, 111, 100, 101, 78, 97, 109, 101 >>
    [] s = "ModeName_de" -> << 77, 111, 100, 101, 78, 97, 109, 101, 95, 100, 101 >>
    [] s = "Chest PA" -> << 67, 104, 101, 115, 116, 32, 80, 65 >>
    [] s = "Thorax PA" -> << 84, 104, 111, 114, 97, 120, 32, 80, 65 >>
    [] s = "Hand" -> << 72, 97, 110, 100 >>
    [] s = "Brust" -> << 66, 114, 117, 115, 116 >>
    [] s = "=" -> << 61 >>
    [] s = " - " -> << 32, 45, 32 >>
    [] s = ";" -> << 59 >>
    [] s = "<!--" -> << 60, 33, 45, 45 >>
    [] s = "; ModeName=Note" -> << 59, 32, 77, 111, 100, 101, 78, 97, 109, 101, 61, 78, 111, 116, 101 >>
    [] s = "<!--<paramDescription" -> << 60, 33, 45, 45, 60, 112, 97, 114, 97, 109, 68, 101, 115, 99, 114, 105, 112, 116, 105, 111, 110 >>
    [] OTHER -> << >>

\* a QVariant that holds a QByteArray
BytesValue(v) == [t |-> "bytes", i |-> 0, s |-> v]

\* QString::toUtf8 on code units below the surrogates
RECURSIVE toUtf8(_)
toUtf8(units) ==
  IF units = << >> THEN << >>
  ELSE LET u == Head(units)
       IN (IF u < 128 THEN << u >>
           ELSE IF u < 2048 THEN << 192 + (u \div 64), 128 + (u % 64) >>
           ELSE << 224 + (u \div 4096), 128 + ((u \div 64) % 64), 128 + (u % 64) >>)
          \o toUtf8(Tail(units))

\* a UTF-8 continuation byte
Continuation(bytes, i) == i <= Len(bytes) /\ bytes[i] >= 128 /\ bytes[i] < 192

\* QString::fromUtf8 on bytes, for sequences of up to three bytes; a byte that
\* starts no sequence becomes U+FFFD
RECURSIVE fromUtf8(_)
fromUtf8(bytes) ==
  IF bytes = << >> THEN << >>
  ELSE LET b == Head(bytes)
       IN IF b < 128 THEN << b >> \o fromUtf8(Tail(bytes))
          ELSE IF b >= 194 /\ b < 224 /\ Continuation(bytes, 2)
               THEN << (b - 192) * 64 + (bytes[2] - 128) >>
                    \o fromUtf8(SubSeq(bytes, 3, Len(bytes)))
          ELSE IF b >= 224 /\ b < 240 /\ Continuation(bytes, 2) /\ Continuation(bytes, 3)
               THEN << (b - 224) * 4096 + (bytes[2] - 128) * 64 + (bytes[3] - 128) >>
                    \o fromUtf8(SubSeq(bytes, 4, Len(bytes)))
          ELSE << 65533 >> \o fromUtf8(Tail(bytes))

\* the decimal digits of a number, as characters
RECURSIVE Digits(_)
Digits(n) ==
  IF n < 10 THEN << 48 + n >> ELSE Digits(n \div 10) \o << 48 + (n % 10) >>

\* QString::number of an int
Decimal(i) == IF i < 0 THEN << 45 >> \o Digits(0 - i) ELSE Digits(i)

\* QVariant::toUInt as a uint32: an int converts and wraps; none of the model's
\* texts is a number, and a text that is no number gives 0
toUInt(value) ==
  IF value.t = "int" THEN << (value.i \div 65536) % 65536, value.i % 65536 >>
  ELSE << 0, 0 >>

\* QVariant::toString, its code units
toString(value) ==
  CASE value.t = "string" -> Chars(value.s)
    [] value.t = "int" -> Decimal(value.i)
    [] value.t = "bytes" -> fromUtf8(Chars(value.s))
    [] OTHER -> << >>

\* QVariant::toByteArray
toByteArray(value) ==
  CASE value.t = "bytes" -> Chars(value.s)
    [] value.t = "string" -> toUtf8(Chars(value.s))
    [] value.t = "int" -> Decimal(value.i)
    [] OTHER -> << >>

\* QVariant::canConvert<QByteArray>
canConvertByteArray(value) == value.t \in {"bytes", "string", "int"}

\* variant: a string payload has no terminating zero
CommandPayloadNoTerminator(command) ==
  CASE command.type = TYPE_U32 -> BE32(toUInt(command.value))
    [] command.type = TYPE_U16 -> BE16(toUInt(command.value)[2])
    [] command.type = TYPE_STRING -> toUtf8(toString(command.value))
    [] OTHER -> IF canConvertByteArray(command.value)
                THEN toByteArray(command.value)
                ELSE toUtf8(toString(command.value))

\* the switch of createCommandPacket: the payload by command.type
CommandPayload(command) ==
  CASE command.type = TYPE_U32 -> BE32(toUInt(command.value))
    [] command.type = TYPE_U16 -> BE16(toUInt(command.value)[2])
    [] command.type = TYPE_STRING -> toUtf8(toString(command.value)) \o << 0 >>
    [] OTHER -> IF canConvertByteArray(command.value)
                THEN toByteArray(command.value)
                ELSE toUtf8(toString(command.value))

\* variant: the length field counts the header too
createCommandPacketLengthWithHeader(command) ==
  LET payload == CommandPayload(command)
  IN BE16(PACKET_COMMAND) \o BE16(0) \o BE32(getTokenId(command.name))
       \o BE32(ToU32(Len(payload) + HEADER_SIZE)) \o BE16(command.type) \o payload

createCommandPacket(command) ==
  LET payload == CommandPayload(command)
  IN BE16(PACKET_COMMAND) \o BE16(0) \o BE32(getTokenId(command.name))
       \o BE32(ToU32(Len(payload))) \o BE16(command.type) \o payload

\* the name arrives as a QString made from the QByteArray
createRequestTokenPacket(name) ==
  LET payload == toUtf8(fromUtf8(Chars(name))) \o << 0 >>
  IN BE16(PACKET_READ_TOKEN) \o BE16(0) \o BE16(ToU16(Len(payload))) \o BE16(0)
       \o m_clientId \o payload

createReadDataPacket(command) ==
  BE16(PACKET_READ_DATA) \o BE16(0) \o BE32(getTokenId(command.name)) \o m_clientId

\* the switch of sendCommand: the packet of the command taken from the queue
Packet(command) ==
  CASE command.packet = PACKET_READ_TOKEN -> createRequestTokenPacket(command.name)
    [] command.packet = PACKET_READ_DATA -> createReadDataPacket(command)
    [] OTHER -> createCommandPacket(command)

\* CR35Device::parseModeList; data and the names it returns are sequences of
\* Latin-1 codes. The locals are the Qt calls it makes (trimmed, indexOf,
\* startsWith, compare, the two replace calls, split), its lambda flushSection
\* on the variables it captures, the body of its loop over the lines (stopped
\* is the break) and its last loop, which keeps first occurrences.
parseModeList(data) ==
  LET RECURSIVE trimmed(_)
      trimmed(s) ==
        LET isSpace(c) == c \in {9, 10, 11, 12, 13, 32, 133, 160}
        IN IF s = << >> THEN s
           ELSE IF isSpace(Head(s)) THEN trimmed(Tail(s))
           ELSE IF isSpace(s[Len(s)]) THEN trimmed(SubSeq(s, 1, Len(s) - 1))
           ELSE s
      indexOf(s, c) ==
        LET S == {i \in 1..Len(s) : s[i] = c}
        IN IF S = {} THEN 0 - 1 ELSE (CHOOSE i \in S : \A k \in S : i <= k) - 1
      startsWith(s, prefix) ==
        Len(s) >= Len(prefix) /\ SubSeq(s, 1, Len(prefix)) = prefix
      compare(key, name) ==
        LET toLower(c) == IF c \in 65..90 THEN c + 32 ELSE c
        IN /\ Len(key) = Len(name)
           /\ \A i \in 1..Len(key) : toLower(key[i]) = toLower(name[i])
      replaceNewlines(text) ==
        LET pairs == [i \in 1..Len(text) |->
                        << text[i], IF i < Len(text) THEN text[i + 1] ELSE 0 - 1 >>]
            kept(p) == ~ (p[1] = 13 /\ p[2] = 10)
            crlf == SelectSeq(pairs, kept)
        IN [i \in 1..Len(crlf) |-> IF crlf[i][1] = 13 THEN 10 ELSE crlf[i][1]]
      RECURSIVE split(_, _)
      split(text, sep) ==
        LET i == indexOf(text, sep)
        IN IF i < 0 THEN << text >>
           ELSE << SubSeq(text, 1, i) >> \o split(SubSeq(text, i + 2, Len(text)), sep)
      flushSection(st) ==
        IF ~st.inModeSection THEN st
        ELSE LET name == trimmed(IF st.currentEn = << >> THEN st.current
                                 ELSE st.currentEn)
                 id == IF st.currentSectionId = << >> THEN << >>
                       ELSE st.currentSectionId \o Chars(" - ")
             IN [st EXCEPT !.result = IF name = << >> THEN @ ELSE Append(@, id \o name),
                           !.currentSectionId = << >>,
                           !.currentEn = << >>,
                           !.current = << >>]
      parseLine(st, raw) ==
        LET line == trimmed(raw)
        IN IF line = << >> \/ startsWith(line, Chars(";")) THEN st
           ELSE IF startsWith(line, Chars("<!--")) THEN [st EXCEPT !.stopped = TRUE]
           ELSE IF Head(line) = 91 /\ line[Len(line)] = 93
             THEN LET mode == startsWith(line, Chars("[Mode-"))
                      l == indexOf(line, 123)
                      r == indexOf(line, 125)
                  IN [flushSection(st) EXCEPT
                        !.inModeSection = mode,
                        !.currentSectionId =
                           IF mode /\ l >= 0 /\ r > l
                           THEN trimmed(SubSeq(line, l + 2, r))
                           ELSE @]
           ELSE IF ~st.inModeSection THEN st
           ELSE LET eq == indexOf(line, 61)
                    key == trimmed(SubSeq(line, 1, eq))
                    value == trimmed(SubSeq(line, eq + 2, Len(line)))
                IN IF eq <= 0 THEN st
                   ELSE IF compare(key, Chars("ModeName_en"))
                     THEN [st EXCEPT !.currentEn = value]
                   ELSE IF compare(key, Chars("ModeName"))
                     THEN [st EXCEPT !.current = value]
                   ELSE st
      RECURSIVE parseLines(_, _)
      parseLines(st, lines) ==
        IF lines = << >> \/ st.stopped THEN st
        ELSE parseLines(parseLine(st, Head(lines)), Tail(lines))
      RECURSIVE unique(_, _)
      unique(result, seen) ==
        IF result = << >> THEN seen
        ELSE LET k == trimmed(Head(result))
             IN unique(Tail(result),
                       IF k = << >> \/ (\E i \in 1..Len(seen) : seen[i] = k) THEN seen
                       ELSE Append(seen, k))
      nulPos == indexOf(data, 0)
      text == replaceNewlines(IF nulPos >= 0 THEN SubSeq(data, 1, nulPos) ELSE data)
      start == [result |-> << >>, currentSectionId |-> << >>, currentEn |-> << >>,
                current |-> << >>, inModeSection |-> FALSE, stopped |-> FALSE]
  IN unique(flushSection(parseLines(start, split(text, 10))).result, << >>)

\* variant: the id is written over every entry
SetTokenAll(tokens, name, id) == [n \in DOMAIN tokens \cup {name} |-> id]

\* m_tokens[name] = id
SetToken(tokens, name, id) ==
  [n \in DOMAIN tokens \cup {name} |-> IF n = name THEN id ELSE tokens[n]]

\* the scan of enqueueCommand: an equal command is already queued
Queued(q, command) == \E i \in 1..Len(q) : CommandEq(q[i], command)

\* variant: the scan also looks at the in-flight slot
enqueueCommandOrInFlight(q, command) ==
  IF Queued(q, command) \/ CommandEq(m_currentCommand, command) THEN q
  ELSE Append(q, command)

\* enqueueCommand, on a queue value
enqueueCommand(q, command) == IF Queued(q, command) THEN q ELSE Append(q, command)

RECURSIVE enqueueAll(_, _)
enqueueAll(q, commands) ==
  IF commands = << >> THEN q
  ELSE enqueueAll(enqueueCommand(q, Head(commands)), Tail(commands))

\* the commands a run of enqueueAll really appends, for the history
Appended(q, commands) ==
  LET q2 == enqueueAll(q, commands) IN SubSeq(q2, Len(q) + 1, Len(q2))

(***************************************************************************)
(* The device and the TCP stream (environment).                            *)
(***************************************************************************)
RECURSIVE IndexOf(_, _, _)
IndexOf(seq, x, i) ==
  IF i > Len(seq) THEN 0 ELSE IF seq[i] = x THEN i ELSE IndexOf(seq, x, i + 1)

\* the id the device assigns to a name (0x1001, 0x1002, ...)
DeviceToken(name) == ToU32(4096 + IndexOf(TOKEN_REQUESTS, name, 1))

DeviceKnows(token) == token \in {DeviceToken(TOKEN_REQUESTS[i]) : i \in 1..Len(TOKEN_REQUESTS)}

DeviceName(token) == TOKEN_REQUESTS[FromU32(token) - 4096]

\* an inbound 14-byte header
Header(flags, packetType, block, token, size, mode) ==
  << flags, packetType >> \o BE16(block) \o BE32(token) \o BE32(size) \o BE16(mode)

Footer(token) == Header(0, 0, 0, token, ToU32(0), 0)

\* a logical response: leading header, payload, footer
Response(token, mode, payload) ==
  Header(1, 17, 0, token, ToU32(Len(payload)), mode) \o payload \o Footer(token)

\* "[Mode-{5}]\nModeName=X\n"
ModeListText ==
  << 91, 77, 111, 100, 101, 45, 123, 53, 125, 93, 10,
     77, 111, 100, 101, 78, 97, 109, 101, 61, 88, 10 >>

DeviceStates == {STATE_READY, STATE_SCANNING, STATE_STOPPING, STATE_WAITING}

\* payloads of ImageData replies: a pixel word, the end-of-image marker
ImageChunks == { << 170, 0 >>, << 251, 255 >> }

\* the replies the device may give to a request
DeviceReplies(req) ==
  IF req.cmd.packet = PACKET_READ_TOKEN
  THEN { Response(DeviceToken(req.cmd.name), 7, << >>) }
  ELSE IF ~ DeviceKnows(req.token) THEN {}
  ELSE IF req.cmd.packet = PACKET_COMMAND THEN { Response(req.token, 7, << >>) }
  ELSE IF DeviceName(req.token) = "ModeList" THEN { Response(req.token, 7, ModeListText) }
  ELSE IF DeviceName(req.token) = "SystemState"
       THEN { Response(req.token, 7, BE32(ToU32(s))) : s \in DeviceStates }
  ELSE IF DeviceName(req.token) = "ImageData"
       THEN { Response(req.token, 8, c) : c \in ImageChunks }
  ELSE { Response(req.token, 7, << >>) }

\* the device never answers its oldest request: one with a token it does not
\* know, or one the driver has given up on
DeviceDrop ==
  /\ socketState = "Connected"
  /\ wire # << >>
  /\ \/ DeviceReplies(Head(wire)) = {}
     \/ Len(wire) > 1
     \/ sinceLastCommand >= TIMEOUT_MS
  /\ wire' = Tail(wire)
  /\ UNCHANGED << socketState, m_buffer, m_imageData, m_tokens, m_currentCommand,
                  m_commands, sinceLastCommand, m_state, m_started, m_wasScanning,
                  dataTimerActive, commandQueueTimerActive, rx, sent, appended,
                  parserRuns, scan, imageRun, m_clientId, written, ev, disconnectWait, faults, userOps, polls,
                  reassembly >>

\* time passes while a command is in flight; a reply that takes half the timeout
\* or more is an irregularity of the device
ClockStep == TIMEOUT_MS \div 2

Clock ==
  /\ m_currentCommand.packet # PACKET_UNKNOWN
  /\ sinceLastCommand < TIMEOUT_MS
  /\ sinceLastCommand' = Min(sinceLastCommand + ClockStep, TIMEOUT_MS)
  /\ IF sinceLastCommand = 0
     THEN (faults < MaxFaults /\ userOps + faults < MaxEvents) /\ faults' = faults + 1
     ELSE faults' = faults
  /\ UNCHANGED << socketState, m_buffer, m_imageData, m_tokens, m_currentCommand,
                  m_commands, m_state, m_started, m_wasScanning, dataTimerActive,
                  commandQueueTimerActive, wire, rx, sent, appended, parserRuns, scan, imageRun, m_clientId, written,
                  ev, disconnectWait, userOps, polls, reassembly >>

(***************************************************************************)
(* The driver: dispatcher tick.                                            *)
(***************************************************************************)
\* variant: the wait ends after half the timeout
SendBlockedHalf ==
  /\ m_currentCommand.packet # PACKET_UNKNOWN
  /\ sinceLastCommand < TIMEOUT_MS \div 2

\* sendCommand's wait: a command is in flight and its timeout has not expired
\* (m_lastCommandTime + TIMEOUT_MS > now)
SendBlocked ==
  /\ m_currentCommand.packet # PACKET_UNKNOWN
  /\ sinceLastCommand < TIMEOUT_MS

\* variant: the newest command is taken
takeLast(q) == [first |-> q[Len(q)], rest |-> SubSeq(q, 1, Len(q) - 1)]

\* m_commands.takeFirst(): the command taken and the queue left
takeFirst(q) == [first |-> Head(q), rest |-> Tail(q)]

\* what the transport receives: the command and the token field of its packet
Request(command) == [cmd |-> command, token |-> getTokenId(command.name)]

\* variant: a command that timed out goes back to the end of the queue
sendCommandRetry ==
  /\ commandQueueTimerActive
  /\ IF m_commands = << >> \/ SendBlocked
     THEN UNCHANGED vars
     ELSE /\ m_currentCommand' = takeFirst(m_commands).first
          /\ m_commands' = IF m_currentCommand.packet # PACKET_UNKNOWN
                           THEN Append(takeFirst(m_commands).rest, m_currentCommand)
                           ELSE takeFirst(m_commands).rest
          /\ appended' = IF m_currentCommand.packet # PACKET_UNKNOWN
                         THEN Append(appended, m_currentCommand)
                         ELSE appended
          /\ sinceLastCommand' = 0
          /\ sent' = Append(sent, m_currentCommand')
          /\ wire' = IF socketState = "Connected"
                     THEN Append(wire, Request(m_currentCommand'))
                     ELSE wire
          /\ written' = Packet(m_currentCommand')
          /\ ev' = [Event("sendCommand") EXCEPT
                      !.handler = IF m_currentCommand.packet # PACKET_UNKNOWN
                                  THEN "timeout" ELSE "none",
                      !.cmd = m_currentCommand]
          /\ UNCHANGED << socketState, m_buffer, m_imageData, m_tokens, m_state,
                          m_started, m_wasScanning, dataTimerActive,
                          commandQueueTimerActive, rx, parserRuns, scan, imageRun, m_clientId,
                          disconnectWait, faults, userOps, polls, reassembly >>

\* sendCommand, the slot of m_commandQueueTimer
sendCommand ==
  /\ commandQueueTimerActive
  /\ IF m_commands = << >> \/ SendBlocked
     THEN UNCHANGED vars
     ELSE /\ m_currentCommand' = takeFirst(m_commands).first
          /\ m_commands' = takeFirst(m_commands).rest
          /\ sinceLastCommand' = 0
          /\ sent' = Append(sent, m_currentCommand')
          /\ wire' = IF socketState = "Connected"
                     THEN Append(wire, Request(m_currentCommand'))
                     ELSE wire
          /\ written' = Packet(m_currentCommand')
          /\ ev' = [Event("sendCommand") EXCEPT
                      !.handler = IF m_currentCommand.packet # PACKET_UNKNOWN
                                  THEN "timeout" ELSE "none",
                      !.cmd = m_currentCommand]
          /\ UNCHANGED << socketState, m_buffer, m_imageData, m_tokens, m_state,
                          m_started, m_wasScanning, dataTimerActive,
                          commandQueueTimerActive, rx, appended, parserRuns, scan, imageRun, m_clientId,
                          disconnectWait, faults, userOps, polls, reassembly >>

(***************************************************************************)
(* The driver: session.                                                    *)
(***************************************************************************)
\* variant: every name is requested, known or not
RECURSIVE TokenRequestsAll(_, _)
TokenRequestsAll(tokens, i) ==
  IF i > Len(TOKEN_REQUESTS) THEN << >>
  ELSE << ReadToken(TOKEN_REQUESTS[i]) >> \o TokenRequestsAll(tokens, i + 1)

RECURSIVE TokenRequests(_, _)
TokenRequests(tokens, i) ==
  IF i > Len(TOKEN_REQUESTS) THEN << >>
  ELSE (IF TOKEN_REQUESTS[i] \in DOMAIN tokens THEN << >>
        ELSE << ReadToken(TOKEN_REQUESTS[i]) >>) \o TokenRequests(tokens, i + 1)

\* the login sequence of init
LoginSequence ==
  << Cmd("Connect", TYPE_U16, IntValue(1)),
     Cmd("UserId", TYPE_STRING, StrValue("user@BACKUP")),
     Cmd("SystemDate", TYPE_STRING, StrValue("<now, UTC>")),
     ReadData("ModeList"),
     ReadData("SystemState") >>

\* the enqueueCommand calls of init, in order
InitCommands(tokens) == TokenRequests(tokens, 1) \o LoginSequence

\* variant: connectToDevice clears the token table
connectToDeviceNewTable ==
  /\ userOps + faults < MaxEvents
  /\ userOps' = userOps + 1
  /\ m_currentCommand' = EmptyCommand
  /\ m_commands' = << >>
  /\ m_buffer' = << >>
  /\ m_state' = STATE_UNKNOWN
  /\ m_started' = FALSE
  /\ socketState' = IF socketState = "Unconnected" THEN "Connecting" ELSE socketState
  /\ sinceLastCommand' = 0
  /\ sent' = << >>
  /\ appended' = << >>
  /\ ev' = Event("connectToDevice")
  /\ m_clientId' \in ClientIds
  /\ m_tokens' = << >>
  /\ UNCHANGED << m_imageData, m_wasScanning, dataTimerActive,
                  commandQueueTimerActive, wire, rx, parserRuns, scan, imageRun, written, disconnectWait,
                  faults, polls, reassembly >>

\* connectToDevice; connectToHost has no effect on a socket that is not unconnected
connectToDevice ==
  /\ userOps + faults < MaxEvents
  /\ userOps' = userOps + 1
  /\ m_currentCommand' = EmptyCommand
  /\ m_commands' = << >>
  /\ m_buffer' = << >>
  /\ m_state' = STATE_UNKNOWN
  /\ m_started' = FALSE
  /\ socketState' = IF socketState = "Unconnected" THEN "Connecting" ELSE socketState
  /\ sinceLastCommand' = 0
  /\ sent' = << >>
  /\ appended' = << >>
  /\ ev' = Event("connectToDevice")
  /\ m_clientId' \in ClientIds
  /\ UNCHANGED << m_imageData, m_tokens, m_wasScanning, dataTimerActive,
                  commandQueueTimerActive, wire, rx, parserRuns, scan, imageRun, written, disconnectWait,
                  faults, polls, reassembly >>

\* QTcpSocket::connected: init
init ==
  /\ socketState = "Connecting"
  /\ socketState' = "Connected"
  /\ m_commands' = enqueueAll(m_commands, InitCommands(m_tokens))
  /\ appended' = appended \o Appended(m_commands, InitCommands(m_tokens))
  /\ commandQueueTimerActive' = TRUE
  /\ wire' = << >>
  /\ rx' = << >>
  /\ ev' = [Event("init") EXCEPT !.signals = {"connected"}, !.enq = InitCommands(m_tokens)]
  /\ UNCHANGED << m_buffer, m_imageData, m_tokens, m_currentCommand, sinceLastCommand,
                  m_state, m_started, m_wasScanning, dataTimerActive, sent,
                  parserRuns, scan, imageRun, m_clientId, written, disconnectWait, faults, userOps, polls, reassembly >>

\* the start sequence
StartSequence(mode) ==
  << Cmd("Mode", TYPE_U32, IntValue(mode)),
     Cmd("PollingOnly", TYPE_U32, IntValue(1)),
     Cmd("Start", TYPE_U16, IntValue(1)) >>

\* variant: start does not look at m_started
StartRefusedUnlessConnected == socketState # "Connected"

\* the early return of start
StartRefused == m_started \/ socketState # "Connected"

start(mode) ==
  /\ StartRefused \/ userOps + faults < MaxEvents
  /\ userOps' = IF StartRefused THEN userOps ELSE userOps + 1
  /\ ev' = IF StartRefused THEN [Event("start") EXCEPT !.handler = "refused"]
            ELSE [Event("start") EXCEPT !.enq = StartSequence(mode)]
  /\ IF StartRefused
     THEN UNCHANGED << m_commands, appended, m_imageData >>
     ELSE /\ m_commands' = enqueueAll(m_commands, StartSequence(mode))
          /\ appended' = appended \o Appended(m_commands, StartSequence(mode))
          /\ m_imageData' = << >>
  /\ UNCHANGED << socketState, m_buffer, m_tokens, m_currentCommand, sinceLastCommand,
                  m_state, m_started, m_wasScanning, dataTimerActive,
                  commandQueueTimerActive, wire, rx, sent, parserRuns, scan, imageRun, m_clientId, written,
                  disconnectWait, faults, polls, reassembly >>

\* variant: Stop is queued before StopRequest
StopSequenceStopFirst ==
  << Cmd("Stop", TYPE_U16, IntValue(1)), Cmd("StopRequest", TYPE_U16, IntValue(1)) >>

\* the stop sequence
StopSequence ==
  << Cmd("StopRequest", TYPE_U16, IntValue(1)), Cmd("Stop", TYPE_U16, IntValue(1)) >>

\* the early return of stop
StopRefused == ~ m_started \/ socketState # "Connected"

\* variant: stop() clears m_started itself
stopAtOnce ==
  /\ StopRefused \/ userOps + faults < MaxEvents
  /\ userOps' = IF StopRefused THEN userOps ELSE userOps + 1
  /\ ev' = IF StopRefused THEN [Event("stop") EXCEPT !.handler = "refused"]
            ELSE [Event("stop") EXCEPT !.enq = StopSequence]
  /\ m_started' = (m_started /\ StopRefused)
  /\ IF StopRefused
     THEN UNCHANGED << m_commands, appended, dataTimerActive >>
     ELSE /\ dataTimerActive' = FALSE
          /\ m_commands' = enqueueAll(m_commands, StopSequence)
          /\ appended' = appended \o Appended(m_commands, StopSequence)
  /\ UNCHANGED << socketState, m_buffer, m_imageData, m_tokens, m_currentCommand,
                  sinceLastCommand, m_state, m_wasScanning,
                  commandQueueTimerActive, wire, rx, sent, parserRuns, scan, imageRun, m_clientId, written,
                  disconnectWait, faults, polls, reassembly >>

stop ==
  /\ StopRefused \/ userOps + faults < MaxEvents
  /\ userOps' = IF StopRefused THEN userOps ELSE userOps + 1
  /\ ev' = IF StopRefused THEN [Event("stop") EXCEPT !.handler = "refused"]
            ELSE [Event("stop") EXCEPT !.enq = StopSequence]
  /\ IF StopRefused
     THEN UNCHANGED << m_commands, appended, dataTimerActive >>
     ELSE /\ dataTimerActive' = FALSE
          /\ m_commands' = enqueueAll(m_commands, StopSequence)
          /\ appended' = appended \o Appended(m_commands, StopSequence)
  /\ UNCHANGED << socketState, m_buffer, m_imageData, m_tokens, m_currentCommand,
                  sinceLastCommand, m_state, m_started, m_wasScanning,
                  commandQueueTimerActive, wire, rx, sent, parserRuns, scan, imageRun, m_clientId, written,
                  disconnectWait, faults, polls, reassembly >>

\* the poll pair
PollSequence == << ReadData("SystemState"), ReadData("ImageData") >>

\* sendImageDataRequest, the slot of the one-shot m_dataTimer
sendImageDataRequest ==
  /\ dataTimerActive
  /\ polls < MaxPolls
  /\ polls' = polls + 1
  /\ dataTimerActive' = FALSE
  /\ ev' = IF m_started THEN [Event("sendImageDataRequest") EXCEPT !.enq = PollSequence]
            ELSE [Event("sendImageDataRequest") EXCEPT !.handler = "refused"]
  /\ IF ~ m_started
     THEN UNCHANGED << m_commands, appended >>
     ELSE /\ m_commands' = enqueueAll(m_commands, PollSequence)
          /\ appended' = appended \o Appended(m_commands, PollSequence)
  /\ UNCHANGED << socketState, m_buffer, m_imageData, m_tokens, m_currentCommand,
                  sinceLastCommand, m_state, m_started, m_wasScanning,
                  commandQueueTimerActive, wire, rx, sent, parserRuns, scan, imageRun, m_clientId, written,
                  disconnectWait, faults, userOps, reassembly >>

(***************************************************************************)
(* The driver: receive path.                                               *)
(***************************************************************************)
\* variant: the branch is chosen by the name of the in-flight command
HandlerOfInFlight(header) ==
  IF m_currentCommand.name \in {"ModeList", "ImageData", "SystemState", "Start", "Stop"}
  THEN m_currentCommand.name
  ELSE "none"

\* the if / else-if chain of readData over header.token
Handler(header) ==
  IF header.token = getTokenId("ModeList") THEN "ModeList"
  ELSE IF header.token = getTokenId("ImageData") THEN "ImageData"
  ELSE IF header.token = getTokenId("SystemState") THEN "SystemState"
  ELSE IF header.token = getTokenId("Start") THEN "Start"
  ELSE IF header.token = getTokenId("Stop") THEN "Stop"
  ELSE "none"

\* variant: the end-of-image test does not look at m_state
ImageEndSeenAnyState(imageData) ==
  /\ m_wasScanning
  /\ Len(imageData) >= 2
  /\ FromLE16(imageData, Len(imageData) - 2) = DATA_MARKER_IMAGE_END

\* the end-of-image test of the ImageData branch, on the buffer after the append
ImageEndSeen(imageData) ==
  /\ m_state = STATE_WAITING
  /\ m_wasScanning
  /\ Len(imageData) >= 2
  /\ FromLE16(imageData, Len(imageData) - 2) = DATA_MARKER_IMAGE_END

\* the fields a handler writes, before it runs
Unchanged ==
  [imageData |-> m_imageData, state |-> m_state, wasScanning |-> m_wasScanning,
   started |-> m_started, dataTimer |-> dataTimerActive, enqueue |-> << >>,
   parsed |-> << >>, signals |-> {}]

\* variant: the timer is armed whether or not acquisition is on
ImageDataHandlerArmsAlways(payload) ==
  LET all == m_imageData \o payload
      done == ImageEndSeen(all)
  IN [Unchanged EXCEPT
        !.imageData = IF done THEN << >> ELSE all,
        !.wasScanning = IF done THEN FALSE ELSE m_wasScanning,
        !.parsed = IF done THEN << all >> ELSE << >>,
        !.signals = IF Len(payload) > 32 THEN {"newDataReceived"} ELSE {},
        !.dataTimer = TRUE]

ImageDataHandler(payload) ==
  LET all == m_imageData \o payload
      done == ImageEndSeen(all)
  IN [Unchanged EXCEPT
        !.imageData = IF done THEN << >> ELSE all,
        !.wasScanning = IF done THEN FALSE ELSE m_wasScanning,
        !.parsed = IF done THEN << all >> ELSE << >>,
        !.signals = IF Len(payload) > 32 THEN {"newDataReceived"} ELSE {},
        !.dataTimer = IF m_started THEN TRUE ELSE dataTimerActive]

\* variant: the image is flushed when the device is ready again
ReadyAfterScan(state) == state = STATE_READY /\ m_wasScanning

\* the test of the second branch on the new state in readData's SystemState
\* branch
StoppingAfterScan(state) == state = STATE_STOPPING /\ m_wasScanning

\* variant: Stopping flushes the image whether or not Scanning was seen
SystemStateHandlerFlushAlways(payload) ==
  IF Len(payload) # 4 THEN Unchanged
  ELSE LET state == FromU32(FromBE32(payload, 0))
           flush == state = STATE_STOPPING
       IN [Unchanged EXCEPT
             !.state = state,
             !.wasScanning = IF state = STATE_SCANNING THEN TRUE
                             ELSE IF flush THEN FALSE ELSE m_wasScanning,
             !.parsed = IF flush THEN << m_imageData >> ELSE << >>,
             !.imageData = IF flush THEN << >> ELSE m_imageData]

SystemStateHandler(payload) ==
  IF Len(payload) # 4 THEN Unchanged
  ELSE LET state == FromU32(FromBE32(payload, 0))
           flush == state # STATE_SCANNING /\ StoppingAfterScan(state)
       IN [Unchanged EXCEPT
             !.state = state,
             !.wasScanning = IF state = STATE_SCANNING THEN TRUE
                             ELSE IF flush THEN FALSE ELSE m_wasScanning,
             !.parsed = IF flush THEN << m_imageData >> ELSE << >>,
             !.imageData = IF flush THEN << >> ELSE m_imageData]

StartHandler ==
  [Unchanged EXCEPT !.started = TRUE, !.signals = {"started"}, !.dataTimer = TRUE]

StopHandler ==
  [Unchanged EXCEPT !.started = FALSE, !.signals = {"stopped"},
                    !.enqueue = << ReadData("SystemState") >>]

\* variant: a parser run leaves m_wasScanning as it was
DispatchKeepsWasScanning(handler, payload) ==
  LET d == CASE handler = "ImageData" -> ImageDataHandler(payload)
             [] handler = "SystemState" -> SystemStateHandler(payload)
             [] handler = "Start" -> StartHandler
             [] handler = "Stop" -> StopHandler
             [] OTHER -> Unchanged
  IN [d EXCEPT !.wasScanning = d.wasScanning \/ m_wasScanning]

\* the branch of readData that runs for a complete response
Dispatch(handler, payload) ==
  CASE handler = "ImageData" -> ImageDataHandler(payload)
    [] handler = "SystemState" -> SystemStateHandler(payload)
    [] handler = "Start" -> StartHandler
    [] handler = "Stop" -> StopHandler
    [] OTHER -> Unchanged

\* the end of disconnectFromDevice, after its wait: the tick is stopped and a
\* connected socket is closed
DisconnectFinish ==
  /\ disconnectWait' = FALSE
  /\ commandQueueTimerActive' = FALSE
  /\ socketState' = IF socketState = "Connected" THEN "Unconnected" ELSE socketState

\* the receive buffer stays, nothing else happens (the early returns of readData)
Await(buf) ==
  /\ m_buffer' = buf
  /\ ev' = [Event("readData") EXCEPT !.handler = "await", !.cmd = m_currentCommand,
                                      !.buf = buf]
  /\ UNCHANGED << m_imageData, m_tokens, m_currentCommand, m_commands, m_state,
                  m_started, m_wasScanning, dataTimerActive, appended, parserRuns, scan, imageRun, m_clientId, written,
                  disconnectWait, socketState, commandQueueTimerActive >>

\* readData with a ReadToken in flight
TokenResponse(buf, header) ==
  /\ m_tokens' = SetToken(m_tokens, m_currentCommand.name, header.token)
  /\ m_currentCommand' = EmptyCommand
  /\ m_buffer' = << >>
  /\ ev' = [Event("readData") EXCEPT !.handler = "token", !.cmd = m_currentCommand,
                                      !.buf = buf]
  /\ UNCHANGED << m_imageData, m_commands, m_state, m_started, m_wasScanning,
                  dataTimerActive, appended, parserRuns, scan, imageRun, m_clientId, written, disconnectWait,
                  socketState, commandQueueTimerActive >>

\* readData with a complete response to a command
CommandResponse(buf, header, payload) ==
  LET h == Handler(header)
      d == Dispatch(h, payload)
  IN /\ m_imageData' = d.imageData
     /\ m_state' = d.state
     /\ m_wasScanning' = d.wasScanning
     /\ m_started' = d.started
     /\ dataTimerActive' = d.dataTimer
     /\ m_commands' = enqueueAll(m_commands, d.enqueue)
     /\ appended' = appended \o Appended(m_commands, d.enqueue)
     /\ parserRuns' = parserRuns \o d.parsed
     /\ imageRun' = IF d.parsed = << >> THEN imageRun ELSE processImageData(d.parsed[1])
     /\ scan' = scan
     /\ UNCHANGED << m_clientId, written >>
     /\ IF disconnectWait /\ "stopped" \in d.signals
        THEN DisconnectFinish
        ELSE UNCHANGED << disconnectWait, socketState, commandQueueTimerActive >>
     /\ m_currentCommand' = EmptyCommand
     /\ m_buffer' = << >>
     /\ ev' = [Event("readData") EXCEPT !.handler = h, !.cmd = m_currentCommand,
                                         !.signals = d.signals, !.enq = d.enqueue,
                                         !.buf = buf, !.payload = payload,
                                         !.modeList = IF h = "ModeList"
                                                      THEN parseModeList(payload)
                                                      ELSE << >>]
     /\ UNCHANGED m_tokens

\* readData, the slot of QTcpSocket::readyRead, when the bytes data have arrived
readData(data) ==
  LET buf == m_buffer \o data
      header == parseHeader(buf)
  IN /\ IF Len(buf) < HEADER_SIZE THEN Await(buf)
        ELSE IF m_currentCommand.packet = PACKET_READ_TOKEN
             THEN TokenResponse(buf, header)
        ELSE LET r == getReadDataPayload(buf, header)
             IN IF ~ r.ok THEN Await(buf) ELSE CommandResponse(buf, header, r.payload)
     /\ UNCHANGED << sinceLastCommand, sent, userOps, polls, reassembly >>

\* the connection's streams after a step: a closed socket loses what was in them
Streams(restWire, restRx) ==
  /\ wire' = IF socketState' = "Connected" THEN restWire ELSE << >>
  /\ rx' = IF socketState' = "Connected" THEN restRx ELSE << >>

\* the places where the stream may be cut into two deliveries
SplitPoints(n) == {7, HEADER_SIZE, n - HEADER_SIZE} \cap 1..(n - 1)

\* the device answers its oldest request and the reply arrives at once
Receive ==
  /\ socketState = "Connected"
  /\ wire # << >>
  /\ rx = << >>
  /\ \E r \in DeviceReplies(Head(wire)) :
       /\ readData(r)
       /\ Streams(Tail(wire), << >>)
  /\ UNCHANGED faults

\* the device answers its oldest request and the first bytes of the reply arrive
ReceivePart ==
  /\ socketState = "Connected"
  /\ wire # << >>
  /\ rx = << >>
  /\ (faults < MaxFaults /\ userOps + faults < MaxEvents)
  /\ faults' = faults + 1
  /\ \E r \in DeviceReplies(Head(wire)) : \E k \in SplitPoints(Len(r)) :
       /\ readData(SubSeq(r, 1, k))
       /\ Streams(Tail(wire), SubSeq(r, k + 1, Len(r)))

\* the rest of a reply arrives
ReceiveRest ==
  /\ socketState = "Connected"
  /\ rx # << >>
  /\ readData(rx)
  /\ Streams(wire, << >>)
  /\ UNCHANGED faults

(***************************************************************************)
(* The driver: disconnect.                                                 *)
(***************************************************************************)
\* disconnectFromDevice up to its wait; without a wait it runs to its end
disconnectFromDevice ==
  /\ userOps + faults < MaxEvents
  /\ ~ disconnectWait
  /\ userOps' = userOps + 1
  /\ ev' = IF socketState # "Unconnected" /\ ~ StopRefused
            THEN [Event("disconnectFromDevice") EXCEPT !.enq = StopSequence]
            ELSE Event("disconnectFromDevice")
  /\ IF socketState = "Unconnected"
     THEN /\ commandQueueTimerActive' = FALSE
          /\ UNCHANGED << m_commands, appended, dataTimerActive, disconnectWait,
                          socketState >>
     ELSE /\ IF StopRefused
             THEN UNCHANGED << m_commands, appended, dataTimerActive >>
             ELSE /\ dataTimerActive' = FALSE
                  /\ m_commands' = enqueueAll(m_commands, StopSequence)
                  /\ appended' = appended \o Appended(m_commands, StopSequence)
          /\ IF m_started
             THEN /\ disconnectWait' = TRUE
                  /\ UNCHANGED << commandQueueTimerActive, socketState >>
             ELSE DisconnectFinish
  /\ Streams(wire, rx)
  /\ UNCHANGED << m_buffer, m_imageData, m_tokens, m_currentCommand, sinceLastCommand,
                  m_state, m_started, m_wasScanning, sent, parserRuns, scan, imageRun, m_clientId, written, faults, polls,
                  reassembly >>

\* the wait of disconnectFromDevice ends by its timer
DisconnectTimeout ==
  /\ disconnectWait
  /\ DisconnectFinish
  /\ Streams(wire, rx)
  /\ ev' = Event("disconnectTimeout")
  /\ UNCHANGED << m_buffer, m_imageData, m_tokens, m_currentCommand, m_commands,
                  sinceLastCommand, m_state, m_started, m_wasScanning, dataTimerActive,
                  sent, appended, parserRuns, scan, imageRun, m_clientId, written, faults, userOps, polls, reassembly >>

\* the peer closes the connection, or the transport fails
PeerDisconnect ==
  /\ socketState # "Unconnected"
  /\ (faults < MaxFaults /\ userOps + faults < MaxEvents)
  /\ faults' = faults + 1
  /\ socketState' = "Unconnected"
  /\ wire' = << >>
  /\ rx' = << >>
  /\ ev' = [Event("socket") EXCEPT !.signals =
              IF socketState = "Connected" THEN {"disconnected"} ELSE {"error"}]
  /\ UNCHANGED << m_buffer, m_imageData, m_tokens, m_currentCommand, m_commands,
                  sinceLastCommand, m_state, m_started, m_wasScanning, dataTimerActive,
                  commandQueueTimerActive, sent, appended, parserRuns, scan, imageRun, m_clientId, written, disconnectWait,
                  userOps, polls, reassembly >>

(***************************************************************************)
(* The protocol engine.                                                    *)
(***************************************************************************)
Next ==
  \/ connectToDevice
  \/ init
  \/ disconnectFromDevice
  \/ DisconnectTimeout
  \/ \E mode \in Modes : start(mode)
  \/ stop
  \/ sendCommand
  \/ sendImageDataRequest
  \/ Receive
  \/ ReceivePart
  \/ ReceiveRest
  \/ DeviceDrop
  \/ Clock
  \/ PeerDisconnect

Spec == Init /\ [][Next]_vars

(***************************************************************************)
(* The receive path on its own: a command is in flight on an established   *)
(* session, a byte stream from the peer is delivered in any segmentation.  *)
(***************************************************************************)
\* byte streams of the peer: two regular responses, a footer on its own (the
\* rest of a reply whose header was consumed), a payload that reads like a
\* footer, size fields that disagree with the payload, a size field near 2^32
FrameInputs ==
  LET T == DeviceToken("SystemState")
      I == DeviceToken("ImageData")
  IN { Response(T, 7, BE32(ToU32(STATE_READY))),
       Response(I, 8, << 170, 0, 187, 0 >>),
       Footer(T),
       Response(T, 7, Footer(T)),
       Header(1, 17, 0, T, ToU32(8), 7) \o << 1, 2, 3, 4 >> \o Footer(T),
       Header(1, 17, 0, T, ToU32(2), 7) \o << 0, 0, 0, 2 >> \o Footer(T),
       Header(1, 17, 0, I, << 65535, 65535 >>, 8) \o << 170, 0 >> \o Footer(I) }

FrameInit ==
  /\ socketState = "Connected"
  /\ m_buffer = << >>
  /\ m_imageData = << >>
  /\ m_tokens = [n \in {TOKEN_REQUESTS[i] : i \in 1..Len(TOKEN_REQUESTS)} |-> DeviceToken(n)]
  /\ m_currentCommand \in {ReadData("SystemState"), ReadData("ImageData")}
  /\ m_commands = << >>
  /\ sinceLastCommand = 0
  /\ m_state = STATE_READY
  /\ m_started = FALSE
  /\ m_wasScanning = FALSE
  /\ dataTimerActive = FALSE
  /\ commandQueueTimerActive = TRUE
  /\ wire = << >>
  /\ rx \in FrameInputs
  /\ sent = << m_currentCommand >>
  /\ appended = << m_currentCommand >>
  /\ parserRuns = << >>
  /\ scan = << >>
  /\ imageRun = NoImageRun
  /\ m_clientId \in ClientIds
  /\ written = << >>
  /\ ev = NoEvent
  /\ disconnectWait = FALSE
  /\ faults = 0
  /\ userOps = 0
  /\ polls = 0
  /\ reassembly = NoReassembly

\* the next bytes of the stream arrive
ReceiveSome ==
  /\ socketState = "Connected"
  /\ rx # << >>
  /\ \E k \in 1..Len(rx) :
       /\ readData(SubSeq(rx, 1, k))
       /\ Streams(wire, SubSeq(rx, k + 1, Len(rx)))
  /\ UNCHANGED faults

FrameNext == ReceiveSome

SpecFrame == FrameInit /\ [][FrameNext]_vars

(***************************************************************************)
(* The reassembler by sizes: getReadDataPayload copies byte ranges that    *)
(* depend on the size of the buffer and the mode of its header only.       *)
(***************************************************************************)
\* blocks of the longest fragmented response
MaxBlocks == 3

\* payload sizes next to a block boundary are taken up to this distance from it
MaxMargin == 6

\* payload sizes: the small ones, and those around every block boundary
WireSizes ==
  0..(4 * MaxMargin)
    \cup UNION { (b * MAX_CHUNK_SIZE - MaxMargin)..(b * MAX_CHUNK_SIZE + MaxMargin) :
                   b \in 1..(MaxBlocks - 1) }
    \cup {70000, MaxBlocks * MAX_CHUNK_SIZE}

\* the number of blocks the device sends for S payload bytes
WireBlockCount(S) == (S + MAX_CHUNK_SIZE - 1) \div MAX_CHUNK_SIZE

\* the length of the wire form of a fragmented response with S payload bytes:
\* leading header, payload, a header in front of every block but the first,
\* footer
WireLen(S) ==
  2 * HEADER_SIZE + S + (IF S = 0 THEN 0 ELSE HEADER_SIZE * (WireBlockCount(S) - 1))

\* where the payload of the wire form lies: block b starts at b * BLOCK_SIZE with
\* its header
WirePayloadRanges(S) ==
  [b \in 1..WireBlockCount(S) |->
     [pos |-> (b - 1) * BLOCK_SIZE + HEADER_SIZE,
      n |-> Min(MAX_CHUNK_SIZE, S - (b - 1) * MAX_CHUNK_SIZE)]]

\* buffers that end with a footer for their leading header: fragmented and
\* single responses as the device sends them, buffers shorter than two headers,
\* a buffer that ends inside an intermediate header, buffers that hold less
\* than their header declares
ReassemblyInputs ==
  { [dataSize |-> WireLen(S), size |-> S, mode |-> 8] : S \in WireSizes }
    \cup { [dataSize |-> 2 * HEADER_SIZE + S, size |-> S, mode |-> 7] :
             S \in 0..(4 * MaxMargin) }
    \cup { [dataSize |-> n, size |-> 0, mode |-> m] :
             n \in {HEADER_SIZE, 2 * HEADER_SIZE - 1}, m \in {7, 8} }
    \cup { [dataSize |-> 2 * HEADER_SIZE + MAX_CHUNK_SIZE + r, size |-> MAX_CHUNK_SIZE + r,
            mode |-> 8] : r \in {1, HEADER_SIZE - 1} }
    \cup { [dataSize |-> 2 * HEADER_SIZE + S, size |-> S + HEADER_SIZE + 1, mode |-> m] :
             S \in {0, MAX_CHUNK_SIZE}, m \in {7, 8} }

WireInit ==
  /\ socketState = "Connected"
  /\ m_buffer = << >>
  /\ m_imageData = << >>
  /\ m_tokens = [n \in {TOKEN_REQUESTS[i] : i \in 1..Len(TOKEN_REQUESTS)} |-> DeviceToken(n)]
  /\ m_currentCommand = ReadData("ImageData")
  /\ m_commands = << >>
  /\ sinceLastCommand = 0
  /\ m_state = STATE_READY
  /\ m_started = FALSE
  /\ m_wasScanning = FALSE
  /\ dataTimerActive = FALSE
  /\ commandQueueTimerActive = TRUE
  /\ wire = << >>
  /\ rx = << >>
  /\ sent = << m_currentCommand >>
  /\ appended = << m_currentCommand >>
  /\ parserRuns = << >>
  /\ scan = << >>
  /\ imageRun = NoImageRun
  /\ m_clientId \in ClientIds
  /\ written = << >>
  /\ ev = NoEvent
  /\ disconnectWait = FALSE
  /\ faults = 0
  /\ userOps = 0
  /\ polls = 0
  /\ \E in \in ReassemblyInputs :
       reassembly = [dataSize |-> in.dataSize, size |-> in.size, mode |-> in.mode,
                     done |-> FALSE, accepted |-> FALSE, slices |-> << >>]

\* getReadDataPayload on a buffer of reassembly.dataSize bytes that ends with a
\* footer for its leading header
Reassemble ==
  /\ ~ reassembly.done
  /\ LET ok == EnoughBytes(reassembly.dataSize, ToU32(reassembly.size))
     IN reassembly' = [reassembly EXCEPT
                         !.done = TRUE,
                         !.accepted = ok,
                         !.slices = IF ok
                                    THEN PayloadSlices(reassembly.dataSize, reassembly.mode)
                                    ELSE << >>]
  /\ UNCHANGED << socketState, m_buffer, m_imageData, m_tokens, m_currentCommand,
                  m_commands, sinceLastCommand, m_state, m_started, m_wasScanning,
                  dataTimerActive, commandQueueTimerActive, wire, rx, sent, appended,
                  parserRuns, scan, imageRun, m_clientId, written, ev, disconnectWait, faults, userOps, polls >>

WireNext == Reassemble

SpecWire == WireInit /\ [][WireNext]_vars

(***************************************************************************)
(* Properties.                                                             *)
(***************************************************************************)
Range(s) == {s[i] : i \in 1..Len(s)}

FirstIndex(s, x) == CHOOSE i \in 1..Len(s) : s[i] = x /\ \A j \in 1..(i - 1) : s[j] # x

\* the token field (bytes 4..7) of the leading header of a buffer
LeadingToken(buf) == << buf[5] * 256 + buf[6], buf[7] * 256 + buf[8] >>

\* readData has just dispatched a complete response to a handler
Dispatched == ev.op = "readData" /\ ev.handler \notin {"await", "token"}

\* the names with a handler, in the order readData tests them
HandledNames == << "ModeList", "ImageData", "SystemState", "Start", "Stop" >>

\* the handler of a command: that of its name, or log only
OwnHandler(command) ==
  IF command.name \in Range(HandledNames) THEN command.name ELSE "none"

\* q2 is q after enqueueCommand was called on the commands of L in order: q is
\* kept as it is, every command of L is queued, and what was added are the
\* commands of L not queued before, once each, in the order of L
EnqueuePost(q, L, q2) ==
  LET new == SubSeq(q2, Len(q) + 1, Len(q2))
  IN /\ Len(q2) >= Len(q)
     /\ SubSeq(q2, 1, Len(q)) = q
     /\ \A c \in Range(L) : c \in Range(q2)
     /\ \A i \in 1..Len(new) : new[i] \in Range(L) /\ new[i] \notin Range(q)
     /\ \A i, j \in 1..Len(new) :
          i < j => new[i] # new[j] /\ FirstIndex(L, new[i]) < FirstIndex(L, new[j])

C2_QueueOrder == appended = sent \o m_commands

\* commands of a start sequence have been sent and others are still queued
C2_SentAndQueued ==
  /\ Len(sent) > Len(InitCommands(<< >>))
  /\ Len(m_commands) >= 2

\* C3: the queue never holds two equal commands; enqueueCommand leaves the queue
\* as it is for a command that is queued and appends any other at the back, the
\* in-flight command included.
C3_NoDuplicates ==
  /\ [](\A i, j \in 1..Len(m_commands) :
          i # j => ~ CommandEq(m_commands[i], m_commands[j]))
  /\ [][(ev'.enq # << >> /\ (ev' # ev \/ m_commands' # m_commands)) =>
          EnqueuePost(m_commands, ev'.enq, m_commands')]_vars

\* a command equal to the in-flight one was queued again
C3_InFlightQueuedAgain ==
  /\ m_currentCommand.packet # PACKET_UNKNOWN
  /\ Queued(m_commands, m_currentCommand)
  /\ ev.op = "start"

\* C4 as stated: the handler that runs for a complete response is that of the
\* command in the in-flight slot, and the slot is empty afterwards.
C4_HandlerOfInFlight ==
  Dispatched => ev.handler = OwnHandler(ev.cmd) /\ m_currentCommand = EmptyCommand

\* C4: the handler that runs for a complete response is the first of ModeList,
\* ImageData, SystemState, Start, Stop whose id in the token table is the token
\* of the leading header, or none; it is the handler of the in-flight command
\* when the table holds the device's ids and the buffer is the device's reply to
\* that command; the slot is empty afterwards.
C4_HandlerByToken ==
  Dispatched =>
    /\ m_currentCommand = EmptyCommand
    /\ \A i \in 1..Len(HandledNames) :
         ev.handler = HandledNames[i] =>
           /\ LeadingToken(ev.buf) = getTokenId(HandledNames[i])
           /\ \A j \in 1..(i - 1) : LeadingToken(ev.buf) # getTokenId(HandledNames[j])
    /\ ev.handler \notin Range(HandledNames) =>
         /\ ev.handler = "none"
         /\ \A i \in 1..Len(HandledNames) : LeadingToken(ev.buf) # getTokenId(HandledNames[i])
    /\ ((\A n \in DOMAIN m_tokens : m_tokens[n] = DeviceToken(n))
        /\ ev.buf \in DeviceReplies(Request(ev.cmd))) =>
         ev.handler = OwnHandler(ev.cmd)

\* the reply to a command that had timed out was dispatched under its successor
C4_LateReply ==
  /\ Dispatched
  /\ ev.handler = "ModeList"
  /\ ev.cmd = ReadData("SystemState")

\* the last HEADER_SIZE bytes of a buffer are a footer for its leading header
FooterMatches(buf) ==
  LET base == Len(buf) - HEADER_SIZE
  IN /\ \A i \in 1..4 : buf[base + i] = 0
     /\ \A i \in 5..8 : buf[base + i] = buf[i]

\* the size field (bytes 8..11) of the leading header of a buffer
LeadingSize(buf) == << buf[9] * 256 + buf[10], buf[11] * 256 + buf[12] >>

\* the mode field (bytes 12..13) of the leading header of a buffer
LeadingMode(buf) == buf[13] * 256 + buf[14]

\* readData looked at a buffer with a leading header while no ReadToken was in
\* flight
Examined == ev.op = "readData" /\ ev.handler # "token" /\ Len(ev.buf) >= HEADER_SIZE

\* C5 as stated: a buffer is accepted as a complete response exactly when it
\* holds at least HEADER_SIZE + header.size + HEADER_SIZE bytes and its last
\* HEADER_SIZE bytes are a footer with flags, packetType and block 0 and the
\* token of the leading header; otherwise more bytes are awaited.
C5_CompleteResponse ==
  Examined =>
    (Dispatched <=>
       /\ LeadingSize(ev.buf)[1] < 16384
       /\ Len(ev.buf) >= HEADER_SIZE + FromU32(LeadingSize(ev.buf)) + HEADER_SIZE
       /\ FooterMatches(ev.buf))

\* the intermediate headers of an accepted fragmented buffer: one at every
\* multiple of BLOCK_SIZE before the footer
IntermediateHeaders(buf) ==
  IF LeadingMode(buf) # 8 THEN 0
  ELSE Cardinality({i \in 1..(Len(buf) \div BLOCK_SIZE) :
                      i * BLOCK_SIZE < Len(buf) - HEADER_SIZE})

\* C6 as stated: the payload extracted from an accepted buffer of len bytes has
\* len - 28 bytes in single mode and len - 28 - 14 k bytes in fragmented mode,
\* k being the number of intermediate headers skipped.
C6_PayloadLength ==
  Dispatched =>
    Len(ev.payload) = Len(ev.buf) - 2 * HEADER_SIZE
                        - HEADER_SIZE * IntermediateHeaders(ev.buf)

\* the number of bytes in a list of chunks
RECURSIVE SliceBytes(_)
SliceBytes(slices) ==
  IF slices = << >> THEN 0 ELSE Head(slices).n + SliceBytes(Tail(slices))

\* C7: a fragmented ImageData response with S payload bytes, whose wire form
\* has an intermediate header after every MAX_CHUNK_SIZE payload bytes but the
\* last chunk, reassembles to its S payload bytes in wire order: the chunks
\* copied are the payload ranges of the wire form, none of them touches an
\* intermediate header, and together they have S bytes.
C7_Reassembly ==
  (/\ reassembly.done
   /\ reassembly.mode = 8
   /\ reassembly.dataSize = WireLen(reassembly.size)) =>
    /\ reassembly.accepted
    /\ reassembly.slices = WirePayloadRanges(reassembly.size)
    /\ SliceBytes(reassembly.slices) = reassembly.size
    /\ \A i \in 1..Len(reassembly.slices) : \A b \in 1..MaxBlocks :
         LET c == reassembly.slices[i]
         IN c.pos + c.n <= b * BLOCK_SIZE \/ c.pos >= b * BLOCK_SIZE + HEADER_SIZE

\* a response of three blocks was reassembled
C7_ThreeBlocks ==
  /\ reassembly.done
  /\ reassembly.mode = 8
  /\ reassembly.size = 2 * MAX_CHUNK_SIZE + 1
  /\ reassembly.dataSize = WireLen(reassembly.size)
  /\ Len(reassembly.slices) = 3

\* C8: an entry of the token table is written only by readData while the
\* ReadToken of its name is in flight, and with the token field of the leading
\* header in the buffer; ReadToken commands are appended by init only, and with
\* none of them queued or in flight the table does not change.
C8_TokenTable ==
  [][/\ DOMAIN m_tokens \subseteq DOMAIN m_tokens'
     /\ \A n \in DOMAIN m_tokens' :
          (n \notin DOMAIN m_tokens \/ m_tokens'[n] # m_tokens[n]) =>
            /\ ev'.op = "readData"
            /\ m_currentCommand = ReadToken(n)
            /\ Len(ev'.buf) >= HEADER_SIZE
            /\ m_tokens'[n] = LeadingToken(ev'.buf)
     /\ \A i \in (Len(appended) + 1)..Len(appended') :
          appended'[i].packet = PACKET_READ_TOKEN => ev'.op = "init"
     /\ (/\ m_currentCommand.packet # PACKET_READ_TOKEN
         /\ \A i \in 1..Len(m_commands) : m_commands[i].packet # PACKET_READ_TOKEN) =>
          m_tokens' = m_tokens]_vars

\* a token was stored from a header that arrived without payload or footer
C8_StoredFromHeader ==
  /\ ev.op = "readData"
  /\ ev.handler = "token"
  /\ Len(ev.buf) = HEADER_SIZE
  /\ m_tokens[ev.cmd.name] = LeadingToken(ev.buf)

\* the names of TOKEN_REQUESTS the token table does not hold, in listed order
MissingNames == SelectSeq(TOKEN_REQUESTS, LAMBDA n : n \notin DOMAIN m_tokens)

driver ==
  << socketState, m_buffer, m_imageData, m_tokens, m_currentCommand, m_commands,
     sinceLastCommand, m_state, m_started, m_wasScanning, dataTimerActive,
     commandQueueTimerActive >>

\* readData has just run the handler of the Start token
StartDispatched ==
  /\ ev.op = "readData"
  /\ ev.handler = "Start"
  /\ LeadingToken(ev.buf) = getTokenId("Start")

\* C10: start(mode), connected and not started, enqueues Mode(mode),
\* PollingOnly(1), Start(1) in that order and clears the image buffer, and
\* leaves m_started and the image-data timer alone; m_started becomes true,
\* started() is emitted and the timer armed when readData dispatches a response
\* with the Start token, and m_started and started() only then, the timer only
\* then or, for its re-arming, once m_started is true; start changes nothing
\* when already started or not connected.
C10_Start ==
  [][/\ (ev'.op = "start" /\ (ev' # ev \/ userOps' # userOps)) =>
          IF m_started \/ socketState # "Connected"
          THEN ev'.handler = "refused" /\ driver' = driver
          ELSE /\ \E mode \in Modes :
                    ev'.enq = << Cmd("Mode", TYPE_U32, IntValue(mode)),
                                 Cmd("PollingOnly", TYPE_U32, IntValue(1)),
                                 Cmd("Start", TYPE_U16, IntValue(1)) >>
               /\ EnqueuePost(m_commands, ev'.enq, m_commands')
               /\ m_imageData' = << >>
               /\ m_started' = m_started
               /\ dataTimerActive' = dataTimerActive
               /\ ev'.signals = {}
     /\ (~ m_started /\ m_started') => StartDispatched'
     /\ ("started" \in ev'.signals /\ ev' # ev) => StartDispatched'
     /\ (~ dataTimerActive /\ dataTimerActive') => StartDispatched' \/ m_started
     /\ (StartDispatched' /\ ev' # ev) =>
          m_started' /\ dataTimerActive' /\ "started" \in ev'.signals]_vars

\* the Start response arrived after start() and acquisition is on
C10_Started ==
  /\ StartDispatched
  /\ ev.cmd = Cmd("Start", TYPE_U16, IntValue(1))
  /\ m_started
  /\ dataTimerActive
  /\ Queued(sent, Cmd("Mode", TYPE_U32, IntValue(5)))

\* readData has just run the handler of the Stop token
StopDispatched ==
  /\ ev.op = "readData"
  /\ ev.handler = "Stop"
  /\ LeadingToken(ev.buf) = getTokenId("Stop")

ImageDataDispatched ==
  /\ ev.op = "readData"
  /\ ev.handler = "ImageData"
  /\ LeadingToken(ev.buf) = getTokenId("ImageData")

\* C12: the image-data timer becomes active only when readData dispatches a
\* response with the Start token, or one with the ImageData token while
\* m_started is true, and a receive that waits for more bytes leaves it alone;
\* it expires only while active and is inactive afterwards (one-shot); its
\* expiry enqueues ReadData(SystemState) then ReadData(ImageData) if m_started
\* is true and nothing otherwise; ReadData(ImageData) is enqueued by the expiry
\* only.  So every poll pair follows an arming of its own.
C12_PollTimer ==
  [][/\ (~ dataTimerActive /\ dataTimerActive') =>
          \/ StartDispatched'
          \/ ImageDataDispatched' /\ m_started
     /\ (ev'.op = "readData" /\ ev'.handler = "await" /\ ev' # ev) =>
          dataTimerActive' = dataTimerActive /\ m_commands' = m_commands
     /\ (ev'.op = "sendImageDataRequest" /\ polls' # polls) =>
          /\ dataTimerActive /\ ~ dataTimerActive'
          /\ IF m_started
             THEN /\ ev'.enq = << ReadData("SystemState"), ReadData("ImageData") >>
                  /\ EnqueuePost(m_commands, ev'.enq, m_commands')
             ELSE /\ ev'.enq = << >>
                  /\ m_commands' = m_commands
     /\ \A i \in (Len(appended) + 1)..Len(appended') :
          (Len(appended') > Len(appended) /\ appended'[i] = ReadData("ImageData")) =>
            ev'.op = "sendImageDataRequest" /\ polls' # polls]_vars

\* a poll pair was enqueued after an ImageData response re-armed the timer
C12_SecondPoll ==
  /\ ev.op = "sendImageDataRequest"
  /\ ev.enq = << ReadData("SystemState"), ReadData("ImageData") >>
  /\ polls = 2
  /\ Queued(sent, ReadData("ImageData"))
  /\ Queued(m_commands, ReadData("ImageData"))

(***************************************************************************)
(* Acquisition on its own: the session is established, the token table is  *)
(* complete and the Start response has just been dispatched.  The timers   *)
(* fire while they are due and time passes; when and whether the device    *)
(* replies is up to the device.                                            *)
(***************************************************************************)
PollingInit ==
  /\ socketState = "Connected"
  /\ m_buffer = << >>
  /\ m_imageData = << >>
  /\ m_tokens = [n \in {TOKEN_REQUESTS[i] : i \in 1..Len(TOKEN_REQUESTS)} |-> DeviceToken(n)]
  /\ m_currentCommand = EmptyCommand
  /\ m_commands = << >>
  /\ sinceLastCommand = 0
  /\ m_state = STATE_READY
  /\ m_started = TRUE
  /\ m_wasScanning = FALSE
  /\ dataTimerActive = TRUE
  /\ commandQueueTimerActive = TRUE
  /\ wire = << >>
  /\ rx = << >>
  /\ sent = << >>
  /\ appended = << >>
  /\ parserRuns = << >>
  /\ scan = << >>
  /\ imageRun = NoImageRun
  /\ m_clientId \in ClientIds
  /\ written = << >>
  /\ ev = NoEvent
  /\ disconnectWait = FALSE
  /\ faults = 0
  /\ userOps = 0
  /\ polls = 0
  /\ reassembly = NoReassembly

PollingNext ==
  \/ sendCommand
  \/ sendImageDataRequest
  \/ Receive
  \/ ReceivePart
  \/ ReceiveRest
  \/ DeviceDrop
  \/ Clock
  \/ stop
  \/ PeerDisconnect

SpecPolling ==
  /\ PollingInit
  /\ [][PollingNext]_vars
  /\ WF_vars(sendCommand)
  /\ WF_vars(sendImageDataRequest)
  /\ WF_vars(Clock)

\* the positions of ReadData(ImageData) in the commands handed to the transport
PollsSent == {i \in 1..Len(sent) : sent[i] = ReadData("ImageData")}

\* stop() has run in this session
StopCalled == Queued(appended, Cmd("StopRequest", TYPE_U16, IntValue(1)))

\* after the k-th ReadData(ImageData), ReadData(SystemState) and then another
\* ReadData(ImageData) were handed to the transport
PolledAgain(k) ==
  \E p \in PollsSent :
    /\ Cardinality({i \in PollsSent : i <= p}) = k
    /\ \E i, j \in (p + 1)..Len(sent) :
         i < j /\ sent[i] = ReadData("SystemState") /\ sent[j] = ReadData("ImageData")

\* the bounds on irregularities leave no room for the in-flight command to
\* time out: the model's clock stands still
ClockStopped ==
  /\ m_currentCommand.packet # PACKET_UNKNOWN
  /\ sinceLastCommand = 0
  /\ ~ (faults < MaxFaults /\ userOps + faults < MaxEvents)

\* C13 as stated: while stop() is not called and the socket stays connected,
\* every ReadData(ImageData) handed to the transport is eventually followed by
\* another ReadData(SystemState) and ReadData(ImageData), the timers being fair
\* (for the polls and timeouts the bounds leave room for).
C13_PollingLive ==
  \A k \in 1..(MaxPolls - 1) :
    (Cardinality(PollsSent) = k /\ m_started /\ socketState = "Connected")
      ~> (\/ PolledAgain(k)
          \/ StopCalled
          \/ socketState # "Connected"
          \/ Cardinality(PollsSent) < k
          \/ ClockStopped)

\* C14: an ImageData response appends its payload to the image buffer; the
\* parser runs on the buffer and the buffer is cleared in this handler exactly
\* when, after the append, m_state is Waiting, m_wasScanning is true and the
\* last two bytes of the buffer are 0xFB 0xFF; otherwise the buffer keeps the
\* appended bytes and the parser does not run.
C14_ImageEnd ==
  [][(ImageDataDispatched' /\ ev' # ev) =>
       LET all == m_imageData \o ev'.payload
           n == Len(all)
       IN IF /\ m_state = 6
             /\ m_wasScanning
             /\ n >= 2
             /\ all[n - 1] = 251
             /\ all[n] = 255
          THEN /\ parserRuns' = Append(parserRuns, all)
               /\ m_imageData' = << >>
          ELSE /\ parserRuns' = parserRuns
               /\ m_imageData' = all]_vars

\* an ImageData response completed an image and the parser ran on what had
\* accumulated
C14_ImageCompleted ==
  /\ ImageDataDispatched
  /\ parserRuns # << >>
  /\ Len(parserRuns[Len(parserRuns)]) > Len(ev.payload)
  /\ m_imageData = << >>
  /\ m_state = STATE_WAITING

\* readData has just run the handler of the SystemState token
SystemStateDispatched ==
  /\ ev.op = "readData"
  /\ ev.handler = "SystemState"
  /\ LeadingToken(ev.buf) = getTokenId("SystemState")

\* the 32-bit big-endian value of four bytes
Word32(b) == ((b[1] * 256 + b[2]) * 256 + b[3]) * 256 + b[4]

\* C15: a SystemState response with a payload of four bytes sets m_state to
\* their big-endian value; the value Scanning sets m_wasScanning; the value
\* Stopping while m_wasScanning is true runs the parser on the image buffer,
\* clears the buffer and resets m_wasScanning; no other value touches
\* m_wasScanning or the buffer.  A payload of another length leaves m_state,
\* m_wasScanning and the image buffer as they are and runs no parser.
C15_SystemState ==
  [][(SystemStateDispatched' /\ ev' # ev) =>
       IF Len(ev'.payload) = 4
       THEN LET v == Word32(ev'.payload)
            IN /\ m_state' = v
               /\ IF v = 4
                  THEN /\ m_wasScanning'
                       /\ m_imageData' = m_imageData
                       /\ parserRuns' = parserRuns
                  ELSE IF v = 5 /\ m_wasScanning
                  THEN /\ ~ m_wasScanning'
                       /\ m_imageData' = << >>
                       /\ parserRuns' = Append(parserRuns, m_imageData)
                  ELSE /\ m_wasScanning' = m_wasScanning
                       /\ m_imageData' = m_imageData
                       /\ parserRuns' = parserRuns
       ELSE /\ m_state' = m_state
            /\ m_wasScanning' = m_wasScanning
            /\ m_imageData' = m_imageData
            /\ parserRuns' = parserRuns]_vars

\* Stopping arrived after Scanning and the parser ran on the bytes accumulated
C15_FlushedOnStopping ==
  /\ SystemStateDispatched
  /\ Len(ev.payload) = 4
  /\ m_state = STATE_STOPPING
  /\ ~ m_wasScanning
  /\ parserRuns # << >>
  /\ parserRuns[Len(parserRuns)] # << >>
  /\ m_imageData = << >>

\* the driver's variables but the tick
driverButTick ==
  << socketState, m_buffer, m_imageData, m_tokens, m_currentCommand, m_commands,
     sinceLastCommand, m_state, m_started, m_wasScanning, dataTimerActive >>

\* C16 as stated: disconnectFromDevice on an unconnected socket stops the tick
\* and changes nothing else; otherwise, if started, it calls stop() and waits
\* for stopped(), and the wait ends with stopped() or with its timer; then, or
\* at once if not started, the tick is stopped and the socket closed.
C16_Disconnect ==
  /\ [](disconnectWait => ENABLED DisconnectTimeout)
  /\ [][/\ (ev'.op = "disconnectFromDevice" /\ userOps' # userOps) =>
             IF socketState = "Unconnected"
             THEN /\ ~ commandQueueTimerActive'
                  /\ driverButTick' = driverButTick
                  /\ ~ disconnectWait'
             ELSE /\ (m_started /\ socketState = "Connected") =>
                       /\ ev'.enq = << Cmd("StopRequest", TYPE_U16, IntValue(1)),
                                       Cmd("Stop", TYPE_U16, IntValue(1)) >>
                       /\ EnqueuePost(m_commands, ev'.enq, m_commands')
                       /\ ~ dataTimerActive'
                  /\ IF m_started
                     THEN disconnectWait'
                     ELSE /\ ~ disconnectWait'
                          /\ ~ commandQueueTimerActive'
                          /\ socketState' = "Unconnected"
        /\ (disconnectWait /\ ~ disconnectWait') =>
             /\ ev'.op = "disconnectTimeout" \/ "stopped" \in ev'.signals
             /\ ~ commandQueueTimerActive'
             /\ socketState' = "Unconnected"]_vars

\* the in-flight command has been outstanding for the response timeout
TimedOut ==
  /\ m_currentCommand.packet # PACKET_UNKNOWN
  /\ sinceLastCommand >= TIMEOUT_MS

\* C17: a command in flight for TIMEOUT_MS without a dispatched response is
\* discarded by the tick that finds a command queued: that tick can fire, it
\* replaces the slot by the head of the queue and hands that command to the
\* transport, and the command it discarded is neither put back into the queue nor
\* handed to the transport again by the dispatcher.
C17_Timeout ==
  /\ []((commandQueueTimerActive /\ TimedOut /\ m_commands # << >>)
          => ENABLED (sendCommand /\ sent' # sent))
  /\ [][(Len(sent') > Len(sent) /\ m_currentCommand.packet # PACKET_UNKNOWN) =>
           /\ TimedOut
           /\ m_commands # << >>
           /\ ev'.op = "sendCommand"
           /\ ev'.handler = "timeout"
           /\ ev'.cmd = m_currentCommand
           /\ m_currentCommand' = Head(m_commands)
           /\ m_commands' = Tail(m_commands)
           /\ sent' = Append(sent, Head(m_commands))
           /\ appended' = appended]_vars

\* a timed out command was discarded: it is neither in the slot nor in the queue
C17_Discarded ==
  /\ ev.op = "sendCommand"
  /\ ev.handler = "timeout"
  /\ ev.cmd # m_currentCommand
  /\ ev.cmd \notin Range(m_commands)
  /\ sent # << >>
  /\ sent[Len(sent)] # ev.cmd

\* C18: a transport failure ends the session: while the socket is unconnected,
\* that is from an error or a disconnect of the transport until connectToDevice
\* is called again, no command leaves the queue and none is handed to the
\* transport.
C18_TransportFailure ==
  [][(socketState = "Unconnected" /\ socketState' = "Unconnected") =>
       /\ sent' = sent
       /\ wire' = wire
       /\ Len(m_commands') >= Len(m_commands)
       /\ SubSeq(m_commands', 1, Len(m_commands)) = m_commands]_vars

(***************************************************************************)
(* The image stream parser on its own: a scanner's stream is in the image  *)
(* buffer and processImageData runs on it.                                 *)
(***************************************************************************)
\* items of a stream per run
MaxScan == 5

\* the k-th pixel of a stream: 0x00AA, 0x00BB, 0x00CC, ...
PixelValue(k) == 153 + 17 * k

\* the payload of a Config item: a JSON text and its NUL
ConfigText == << 123, 125, 0 >>

\* the items a scanner puts into the stream, pixels not yet numbered
ScanItems ==
  { [kind |-> "LineStart", arg |-> 2],
    [kind |-> "Gap", arg |-> 3],
    [kind |-> "Gap", arg |-> 65535],
    [kind |-> "Pixel", arg |-> 0],
    [kind |-> "ImageEnd", arg |-> 0],
    [kind |-> "Nop", arg |-> 0],
    [kind |-> "Other", arg |-> 65530],
    [kind |-> "Config", arg |-> Len(ConfigText)] }

\* how a stream can end: whole, or cut after a marker that has an operand
ScanTails ==
  { << >>,
    << [kind |-> "Cut", arg |-> DATA_MARKER_START] >>,
    << [kind |-> "Cut", arg |-> DATA_MARKER_GAP] >> }

\* the number of pixels among the first i items
RECURSIVE PixelsUpTo(_, _)
PixelsUpTo(items, i) ==
  IF i = 0 THEN 0
  ELSE PixelsUpTo(items, i - 1) + (IF items[i].kind = "Pixel" THEN 1 ELSE 0)

\* the items with the pixels numbered
Numbered(items) ==
  [i \in DOMAIN items |->
     IF items[i].kind = "Pixel"
     THEN [items[i] EXCEPT !.arg = PixelValue(PixelsUpTo(items, i))]
     ELSE items[i]]

\* the bytes of an item (DataMarker: a marker word, then its operand)
EncodeItem(item) ==
  CASE item.kind = "LineStart" -> LE16(DATA_MARKER_START) \o LE16(item.arg)
    [] item.kind = "Gap" -> LE16(DATA_MARKER_GAP) \o LE16(item.arg)
    [] item.kind = "Config" -> LE16(DATA_MARKER_CONFIG) \o LE16(item.arg) \o ConfigText
    [] item.kind = "ImageEnd" -> LE16(DATA_MARKER_IMAGE_END)
    [] item.kind = "Nop" -> LE16(DATA_MARKER_NOP)
    [] OTHER -> LE16(item.arg)

\* the bytes of a stream
RECURSIVE EncodeScan(_)
EncodeScan(items) ==
  IF items = << >> THEN << >>
  ELSE EncodeItem(Head(items)) \o EncodeScan(Tail(items))

ParserInit ==
  /\ socketState = "Connected"
  /\ m_buffer = << >>
  /\ scan \in { Numbered(body) \o tail :
                  body \in UNION { [1..n -> ScanItems] : n \in 0..MaxScan },
                  tail \in ScanTails }
  /\ m_imageData = EncodeScan(scan)
  /\ m_tokens = [n \in {TOKEN_REQUESTS[i] : i \in 1..Len(TOKEN_REQUESTS)} |-> DeviceToken(n)]
  /\ m_currentCommand = EmptyCommand
  /\ m_commands = << >>
  /\ sinceLastCommand = 0
  /\ m_state = STATE_STOPPING
  /\ m_started = FALSE
  /\ m_wasScanning = TRUE
  /\ dataTimerActive = FALSE
  /\ commandQueueTimerActive = TRUE
  /\ wire = << >>
  /\ rx = << >>
  /\ sent = << >>
  /\ appended = << >>
  /\ parserRuns = << >>
  /\ imageRun = NoImageRun
  /\ m_clientId \in ClientIds
  /\ written = << >>
  /\ ev = NoEvent
  /\ disconnectWait = FALSE
  /\ faults = 0
  /\ userOps = 0
  /\ polls = 0
  /\ reassembly = NoReassembly

\* the flush of readData's SystemState branch: processImageData(),
\* m_wasScanning = false and m_imageData.clear()
FlushImage ==
  /\ m_state = STATE_STOPPING
  /\ m_wasScanning
  /\ imageRun' = processImageData(m_imageData)
  /\ parserRuns' = Append(parserRuns, m_imageData)
  /\ m_imageData' = << >>
  /\ m_wasScanning' = FALSE
  /\ ev' = [Event("processImageData") EXCEPT
              !.signals = IF imageRun'.frame.emitted THEN {"imageDataReceived"} ELSE {}]
  /\ UNCHANGED << socketState, m_buffer, m_tokens, m_currentCommand, m_commands,
                  sinceLastCommand, m_state, m_started, dataTimerActive,
                  commandQueueTimerActive, wire, rx, sent, appended, disconnectWait,
                  faults, userOps, polls, reassembly, scan, m_clientId, written >>

ParserNext == FlushImage

SpecParser == ParserInit /\ [][ParserNext]_vars

\* the items that end a run of pixel words
RunDelimiters == {"LineStart", "Gap", "ImageEnd"}

\* the indices of S in ascending order
RECURSIVE Ascending(_)
Ascending(S) ==
  IF S = {} THEN << >>
  ELSE LET m == CHOOSE n \in S : \A k \in S : n <= k
       IN << m >> \o Ascending(S \ {m})

\* where the line that the LineStart at index ls opens ends: at the next LineStart
\* or ImageEnd, or behind the last item
LineEndIndex(items, ls) ==
  LET S == {j \in (ls + 1)..Len(items) : items[j].kind \in {"LineStart", "ImageEnd"}}
  IN IF S = {} THEN Len(items) + 1 ELSE CHOOSE n \in S : \A k \in S : n <= k

\* leftX plus the pixels and the Gap skips between the LineStart at ls and item i
RECURSIVE XBefore(_, _, _)
XBefore(items, ls, i) ==
  IF i <= ls + 1 THEN items[ls].arg
  ELSE XBefore(items, ls, i - 1)
         + (CASE items[i - 1].kind = "Pixel" -> 1
              [] items[i - 1].kind = "Gap" -> items[i - 1].arg
              [] OTHER -> 0)

\* the pixels of the maximal run that follows the delimiter at index d
RunAfter(items, d) ==
  {i \in (d + 1)..Len(items) :
     /\ items[i].kind = "Pixel"
     /\ \A k \in (d + 1)..(i - 1) : items[k].kind \notin RunDelimiters}

\* a position as the line assembler holds it, in 16 bits or exact
Position(v, inU16) == IF inU16 THEN ToU16(v) ELSE v

\* the line opened by the LineStart at ls: a segment for every non-empty run
\* after the LineStart or after a Gap of the line, and the final x
ExpectedLine(items, ls, inU16) ==
  LET e == LineEndIndex(items, ls)
      ds == Ascending({d \in ls..(e - 1) :
                         items[d].kind \in {"LineStart", "Gap"} /\ RunAfter(items, d) # {}})
  IN [segments |->
        [k \in 1..Len(ds) |->
           LET run == Ascending(RunAfter(items, ds[k]))
           IN [xStart |-> Position(XBefore(items, ls, run[1]), inU16),
               pixelCount |-> Len(run),
               pixels |-> [n \in 1..Len(run) |-> items[run[n]].arg]]],
      endX |-> Position(XBefore(items, ls, e), inU16)]

\* the lines of a stream that have a segment, in stream order
ExpectedImage(items, inU16) ==
  LET starts == Ascending({ls \in 1..Len(items) :
                             /\ items[ls].kind = "LineStart"
                             /\ Len(ExpectedLine(items, ls, inU16).segments) > 0})
  IN [k \in 1..Len(starts) |-> ExpectedLine(items, starts[k], inU16)]

\* the lines processImageData assembled: position, length and pixels of every
\* segment and the end of every line
AssembledImage ==
  [y \in DOMAIN imageRun.image |->
     [segments |->
        [k \in DOMAIN imageRun.image[y].segments |->
           [xStart |-> imageRun.image[y].segments[k].xStart,
            pixelCount |-> imageRun.image[y].segments[k].pixelCount,
            pixels |-> imageRun.image[y].segments[k].pixels]],
      endX |-> imageRun.image[y].endX]]

\* processImageData has run on the stream
ImageParsed == ev.op = "processImageData" /\ parserRuns = << EncodeScan(scan) >>

\* C19: an emitted frame is the bounding box of the segments: its width is the
\* greatest xStart + pixelCount minus the least xStart over all segments of all
\* lines, and every pixel word of every segment of line y is in row y at
\* column xStart - minLeft + its index in the segment; no segment is skipped or
\* clipped.
C19_BoundingBox ==
  (ImageParsed /\ imageRun.frame.emitted) =>
    LET image == imageRun.image
        frame == imageRun.frame
        segs == UNION {{image[y].segments[k] : k \in DOMAIN image[y].segments} :
                         y \in DOMAIN image}
        minLeft == CHOOSE m \in {s.xStart : s \in segs} : \A s \in segs : m <= s.xStart
        maxRight == CHOOSE m \in {s.xStart + s.pixelCount : s \in segs} :
                      \A s \in segs : s.xStart + s.pixelCount <= m
    IN /\ frame.width = maxRight - minLeft
       /\ frame.height = Len(image)
       /\ Len(frame.img) = frame.width * frame.height
       /\ \A y \in DOMAIN image : \A k \in DOMAIN image[y].segments :
            LET s == image[y].segments[k]
            IN \A i \in 1..s.pixelCount :
                 LET column == s.xStart - minLeft + (i - 1)
                 IN /\ column >= 0
                    /\ column < frame.width
                    /\ frame.img[(y - 1) * frame.width + column + 1] = s.pixels[i]

FrameRow(frame, y) == SubSeq(frame.img, (y - 1) * frame.width + 1, y * frame.width)

\* a word of the frame that is not the fill value
NotWhite(w) == w # WHITE

\* the pixel words of a line in the order of its segments
RECURSIVE LinePixels(_, _)
LinePixels(segments, k) ==
  IF k > Len(segments) THEN << >>
  ELSE segments[k].pixels \o LinePixels(segments, k + 1)

\* C21: the parser strips control words: every word of an emitted frame is the
\* fill value 0xFFFF or a pixel word of the stream, and the words of row y that
\* are not fill are the pixel words of line y of the stream, all of them, in
\* stream order, whatever Nop, Config or unknown markers stand between them.
C21_ControlWordsStripped ==
  (ImageParsed /\ imageRun.frame.emitted) =>
    LET frame == imageRun.frame
        lines == ExpectedImage(scan, TRUE)
    IN /\ \A k \in DOMAIN frame.img :
            \/ frame.img[k] = WHITE
            \/ \E i \in DOMAIN scan : scan[i].kind = "Pixel" /\ scan[i].arg = frame.img[k]
       /\ frame.height = Len(lines)
       /\ \A y \in 1..frame.height :
            SelectSeq(FrameRow(frame, y), NotWhite) = LinePixels(lines[y].segments, 1)

(***************************************************************************)
(* The packet encoders on their own: one command is queued and the tick    *)
(* sends it.                                                               *)
(***************************************************************************)
\* the names of the queued command; no table holds "Unlisted"
PacketNames == {"Start", "UserId", "Unlisted"}

\* the values of the queued command
PacketValues ==
  { IntValue(0), IntValue(1), IntValue(258), IntValue(70000), IntValue(0 - 1),
    StrValue("user@BACKUP"), StrValue(""), StrValue("cafe acute"),
    BytesValue("raw DE AD 00 EF"), NoValue }

\* the queued command
PacketCommands ==
  {ReadToken(n) : n \in PacketNames} \cup {ReadData(n) : n \in PacketNames}
    \cup {Cmd(n, t, v) : n \in PacketNames,
                         t \in {TYPE_U32, TYPE_U16, TYPE_STRING, TYPE_BLOB, TYPE_UNKNOWN},
                         v \in PacketValues}

\* the token tables: empty, the device's ids, an id with four different bytes,
\* one id given to two names
PacketTables ==
  { [n \in {} |-> << 0, 0 >>],
    [n \in {"Start", "UserId"} |-> DeviceToken(n)],
    [n \in {"Start"} |-> << 4660, 22136 >>],
    [n \in {"Start", "UserId"} |-> DeviceToken("Start")] }

\* the client ids
PacketClientIds == { << 17, 34, 51, 68, 85, 102 >>, << 0, 0, 0, 0, 1, 255 >> }

PacketInit ==
  /\ socketState = "Connected"
  /\ m_buffer = << >>
  /\ m_imageData = << >>
  /\ m_tokens \in PacketTables
  /\ m_currentCommand = EmptyCommand
  /\ m_commands \in {<< c >> : c \in PacketCommands}
  /\ sinceLastCommand = 0
  /\ m_state = STATE_READY
  /\ m_started = FALSE
  /\ m_wasScanning = FALSE
  /\ dataTimerActive = FALSE
  /\ commandQueueTimerActive = TRUE
  /\ wire = << >>
  /\ rx = << >>
  /\ sent = << >>
  /\ appended = m_commands
  /\ parserRuns = << >>
  /\ scan = << >>
  /\ imageRun = NoImageRun
  /\ m_clientId \in PacketClientIds
  /\ written = << >>
  /\ ev = NoEvent
  /\ disconnectWait = FALSE
  /\ faults = 0
  /\ userOps = 0
  /\ polls = 0
  /\ reassembly = NoReassembly

PacketNext == sendCommand

SpecPacket == PacketInit /\ [][PacketNext]_vars

\* the UTF-8 bytes of the texts of PacketNames and PacketValues
Utf8Bytes(s) ==
  CASE s = "Start" -> << 83, 116, 97, 114, 116 >>
    [] s = "UserId" -> << 85, 115, 101, 114, 73, 100 >>
    [] s = "Unlisted" -> << 85, 110, 108, 105, 115, 116, 101, 100 >>
    [] s = "user@BACKUP" -> << 117, 115, 101, 114, 64, 66, 65, 67, 75, 85, 80 >>
    [] s = "cafe acute" -> << 99, 97, 102, 195, 169 >>
    [] s = "" -> << >>

\* the token field of a packet for a name
TokenField(name) ==
  IF name \in DOMAIN m_tokens THEN m_tokens[name] ELSE << 65535, 65535 >>

\* a command has been sent and is in the slot
PacketSent ==
  /\ ev.op = "sendCommand"
  /\ sent = << m_currentCommand >>
  /\ m_currentCommand.packet # PACKET_UNKNOWN

\* C22: every packet written is a 14-byte header and the payload.  Command:
\* 0x0011, 0, token (u32), payload length (u32), payload type (u16), all
\* big-endian, then the payload: a U32 as 4 big-endian bytes, a U16 as 2, a
\* string as its UTF-8 bytes and one 0x00, a blob as it is.  ReadToken: 0x0003,
\* 0, len(name) + 1, 0, the six bytes of the client id, then the name and 0x00.
\* ReadData: 0x0010, 0, token (u32), the client id, nothing else.  The token of
\* a name that is not in the table is 0xFFFFFFFF and the packet is written
\* all the same.
C22_Packets ==
  PacketSent =>
    LET c == m_currentCommand
        p == written
        payload == SubSeq(p, HEADER_SIZE + 1, Len(p))
    IN /\ Len(p) >= HEADER_SIZE
       /\ Len(m_clientId) = 6
       /\ c.packet = PACKET_COMMAND =>
            /\ FromBE16(p, 0) = 17
            /\ FromBE16(p, 2) = 0
            /\ FromBE32(p, 4) = TokenField(c.name)
            /\ FromBE32(p, 8) = << 0, Len(payload) >>
            /\ FromBE16(p, 12) = c.type
            /\ (c.type = TYPE_U32 /\ c.value.t = "int" /\ c.value.i >= 0) =>
                 /\ Len(payload) = 4
                 /\ FromBE32(payload, 0) = << c.value.i \div 65536, c.value.i % 65536 >>
            /\ (c.type = TYPE_U16 /\ c.value.t = "int" /\ c.value.i \in 0..65535) =>
                 /\ Len(payload) = 2
                 /\ FromBE16(payload, 0) = c.value.i
            /\ (c.type = TYPE_STRING /\ c.value.t = "string") =>
                 payload = Utf8Bytes(c.value.s) \o << 0 >>
            /\ (c.type = TYPE_BLOB /\ c.value.t = "bytes") =>
                 payload = Chars(c.value.s)
       /\ c.packet = PACKET_READ_TOKEN =>
            /\ FromBE16(p, 0) = 3
            /\ FromBE16(p, 2) = 0
            /\ FromBE16(p, 4) = Len(Utf8Bytes(c.name)) + 1
            /\ FromBE16(p, 6) = 0
            /\ SubSeq(p, 9, HEADER_SIZE) = m_clientId
            /\ payload = Utf8Bytes(c.name) \o << 0 >>
       /\ c.packet = PACKET_READ_DATA =>
            /\ FromBE16(p, 0) = 16
            /\ FromBE16(p, 2) = 0
            /\ FromBE32(p, 4) = TokenField(c.name)
            /\ SubSeq(p, 9, HEADER_SIZE) = m_clientId
            /\ payload = << >>

\* Command(UserId, String, "user@BACKUP") was written with an empty token table:
\* the token field is the sentinel
C22_SentWithSentinel ==
  /\ PacketSent
  /\ m_currentCommand = Cmd("UserId", TYPE_STRING, StrValue("user@BACKUP"))
  /\ "UserId" \notin DOMAIN m_tokens
  /\ written = << 0, 17, 0, 0, 255, 255, 255, 255, 0, 0, 0, 12, 0, 7 >>
                 \o << 117, 115, 101, 114, 64, 66, 65, 67, 75, 85, 80 >> \o << 0 >>

\* what the bytes of a packet give when they are read back field by field: the
\* kind, the token, the payload type, and the name or value the payload holds
Decoded(p) ==
  LET kind == FromBE16(p, 0)
      payload == SubSeq(p, HEADER_SIZE + 1, Len(p))
      type == FromBE16(p, 12)
  IN CASE kind = PACKET_READ_TOKEN ->
            [kind |-> kind, name |-> fromUtf8(SubSeq(payload, 1, Len(payload) - 1))]
       [] kind = PACKET_READ_DATA ->
            [kind |-> kind, token |-> FromBE32(p, 4)]
       [] OTHER ->
            [kind |-> kind, token |-> FromBE32(p, 4), type |-> type,
             value |-> CASE type = TYPE_U32 -> FromBE32(payload, 0)
                         [] type = TYPE_U16 -> << 0, FromBE16(payload, 0) >>
                         [] type = TYPE_STRING ->
                              fromUtf8(SubSeq(payload, 1, Len(payload) - 1))
                         [] OTHER -> payload]

\* the value of a command, in the form Decoded gives it
ValueOf(c) ==
  CASE c.type \in {TYPE_U32, TYPE_U16} -> << c.value.i \div 65536, c.value.i % 65536 >>
    [] c.type = TYPE_STRING -> Chars(c.value.s)
    [] OTHER -> Chars(c.value.s)

\* a command of one of the three kinds whose value is a value of its payload type
Supported(c) ==
  \/ c.packet \in {PACKET_READ_TOKEN, PACKET_READ_DATA}
  \/ /\ c.packet = PACKET_COMMAND
     /\ \/ c.type = TYPE_U32 /\ c.value.t = "int" /\ c.value.i >= 0
        \/ c.type = TYPE_U16 /\ c.value.t = "int" /\ c.value.i \in 0..65535
        \/ c.type = TYPE_STRING /\ c.value.t = "string"
        \/ c.type = TYPE_BLOB /\ c.value.t = "bytes"

\* the names the token table holds under an id
NamesOf(token) == {n \in DOMAIN m_tokens : m_tokens[n] = token}

\* kind, payload type and value are read back from the packet of command c
FieldsRecovered(c, d) ==
  /\ d.kind = c.packet
  /\ c.packet = PACKET_READ_TOKEN => d.name = Chars(c.name)
  /\ c.packet = PACKET_COMMAND => d.type = c.type /\ d.value = ValueOf(c)

\* C23 as stated: the bytes of every supported command give back its kind, payload
\* type and value (a string without its NUL, a U32 from 4 and a U16 from 2
\* big-endian bytes) and its name.
C23_RoundTrip ==
  (PacketSent /\ Supported(m_currentCommand)) =>
    LET c == m_currentCommand
        d == Decoded(written)
    IN /\ FieldsRecovered(c, d)
       /\ c.packet # PACKET_READ_TOKEN => NamesOf(d.token) = {c.name}

\* C23, the name by its token: the bytes of every supported command give back
\* its kind, payload type and value; the name itself for a ReadToken, and for a
\* ReadData or Command the token id of the name, which gives the name when the
\* table holds the name and no other name under that id.
C23_RoundTripByToken ==
  (PacketSent /\ Supported(m_currentCommand)) =>
    LET c == m_currentCommand
        d == Decoded(written)
    IN /\ FieldsRecovered(c, d)
       /\ c.packet # PACKET_READ_TOKEN =>
            /\ d.token = TokenField(c.name)
            /\ (c.name \in DOMAIN m_tokens /\ Cardinality(NamesOf(m_tokens[c.name])) = 1) =>
                 NamesOf(d.token) = {c.name}

\* the U32 value 70000 was written as 00 01 11 70 and read back, and the name
\* was found by its token
C23_U32ReadBack ==
  /\ PacketSent
  /\ m_currentCommand = Cmd("Start", TYPE_U32, IntValue(70000))
  /\ SubSeq(written, HEADER_SIZE + 1, Len(written)) = << 0, 1, 17, 112 >>
  /\ Decoded(written).value = << 1, 4464 >>
  /\ NamesOf(Decoded(written).token) = {"Start"}

\* ---- the mode list parser on its own ----

MaxModeLines == 5

\* the lines a mode list is made of: section headers, keys, a comment, the start
\* of the XML part, a NUL
ModeItems ==
  { [kind |-> "section", id |-> "00000001", name |-> ""],
    [kind |-> "section", id |-> "00000002", name |-> ""],
    [kind |-> "key", id |-> "ModeName_en", name |-> "Chest PA"],
    [kind |-> "key", id |-> "ModeName", name |-> "Thorax PA"],
    [kind |-> "key", id |-> "ModeName", name |-> "Hand"],
    [kind |-> "key", id |-> "ModeName_de", name |-> "Brust"],
    [kind |-> "comment", id |-> "", name |-> ""],
    [kind |-> "xml", id |-> "", name |-> ""],
    [kind |-> "nul", id |-> "", name |-> ""] }

\* the text of the items: one line each, ended by LF, by CR LF after the header
\* of mode 00000002 and by CR after the comment; the NUL byte stands alone
RECURSIVE EncodeModes(_)
EncodeModes(items) ==
  IF items = << >> THEN << >>
  ELSE LET item == Head(items)
       IN (CASE item.kind = "section" ->
                  Chars("[Mode-{") \o Chars(item.id) \o Chars("}]")
                    \o (IF item.id = "00000002" THEN << 13, 10 >> ELSE << 10 >>)
             [] item.kind = "key" ->
                  Chars(item.id) \o Chars("=") \o Chars(item.name) \o << 10 >>
             [] item.kind = "comment" -> Chars("; ModeName=Note") \o << 13 >>
             [] item.kind = "xml" -> Chars("<!--<paramDescription") \o << 10 >>
             [] OTHER -> << 0 >>)
          \o EncodeModes(Tail(items))

ModesInit ==
  /\ socketState = "Connected"
  /\ m_buffer = << >>
  /\ scan \in UNION { [1..n -> ModeItems] : n \in 0..MaxModeLines }
  /\ m_imageData = << >>
  /\ m_tokens = [n \in {TOKEN_REQUESTS[i] : i \in 1..Len(TOKEN_REQUESTS)} |-> DeviceToken(n)]
  /\ m_currentCommand = EmptyCommand
  /\ m_commands = << >>
  /\ sinceLastCommand = 0
  /\ m_state = STATE_READY
  /\ m_started = FALSE
  /\ m_wasScanning = FALSE
  /\ dataTimerActive = FALSE
  /\ commandQueueTimerActive = TRUE
  /\ wire = << >>
  /\ rx = << >>
  /\ sent = << >>
  /\ appended = << >>
  /\ parserRuns = << >>
  /\ imageRun = NoImageRun
  /\ m_clientId \in ClientIds
  /\ written = << >>
  /\ ev = NoEvent
  /\ disconnectWait = FALSE
  /\ faults = 0
  /\ userOps = 0
  /\ polls = 0
  /\ reassembly = NoReassembly

\* m_modeList = parseModeList(payload) of readData's ModeList branch
ParseModes ==
  /\ ev = NoEvent
  /\ ev' = [Event("parseModeList") EXCEPT !.payload = EncodeModes(scan),
                                          !.modeList = parseModeList(EncodeModes(scan))]
  /\ UNCHANGED << socketState, m_buffer, m_imageData, m_tokens, m_currentCommand,
                  m_commands, sinceLastCommand, m_state, m_started, m_wasScanning,
                  dataTimerActive, commandQueueTimerActive, wire, rx, sent, appended,
                  parserRuns, imageRun, disconnectWait, faults, userOps, polls,
                  reassembly, scan, m_clientId, written >>

ModesNext == ParseModes

SpecModes == ModesInit /\ [][ModesNext]_vars

\* the lines before the XML part and before the NUL
Visible(items) ==
  LET S == {j \in 1..Len(items) : items[j].kind \in {"xml", "nul"}}
  IN IF S = {} THEN items
     ELSE SubSeq(items, 1, (CHOOSE n \in S : \A k \in S : n <= k) - 1)

\* the value a section gives to a key: that of the key's last line in the section
\* that starts at index s, "" when the section has no such line
KeyValue(items, s, key) ==
  LET E == {j \in (s + 1)..Len(items) : items[j].kind = "section"}
      end == IF E = {} THEN Len(items) + 1 ELSE CHOOSE n \in E : \A k \in E : n <= k
      S == {j \in (s + 1)..(end - 1) : items[j].kind = "key" /\ items[j].id = key}
  IN IF S = {} THEN "" ELSE items[CHOOSE n \in S : \A k \in S : n >= k].name

\* the display name of the section at s: ModeName_en, then ModeName, then ModeName_de
DisplayName(items, s) ==
  IF KeyValue(items, s, "ModeName_en") # "" THEN KeyValue(items, s, "ModeName_en")
  ELSE IF KeyValue(items, s, "ModeName") # "" THEN KeyValue(items, s, "ModeName")
  ELSE KeyValue(items, s, "ModeName_de")

\* a sequence without the repetitions of its elements
FirstSeen(seq) ==
  LET keep == Ascending({i \in 1..Len(seq) : \A j \in 1..(i - 1) : seq[j] # seq[i]})
  IN [k \in 1..Len(keep) |-> seq[keep[k]]]

\* "<id> - <name>" of the mode sections that have a display name, in order
ModeEntries(items) ==
  LET v == Visible(items)
      secs == Ascending({s \in 1..Len(v) : v[s].kind = "section" /\ DisplayName(v, s) # ""})
  IN FirstSeen([k \in 1..Len(secs) |->
                  Chars(v[secs[k]].id) \o Chars(" - ") \o Chars(DisplayName(v, secs[k]))])

\* C24: the list parseModeList gives has one entry "<id> - <name>" for each
\* [Mode-{id}] section, the name being ModeName_en, else ModeName, else
\* ModeName_de; comment lines do not count, nothing after a line that starts
\* with "<!--" or after the first NUL counts, and the list keeps the first
\* occurrence of each entry, in order.
C24_ModeList ==
  ev.op = "parseModeList" => ev.modeList = ModeEntries(scan)

\* a buffer that is not yet a response: no full leading header, fewer bytes than
\* the header and the declared size (a size of 2^30 or more is beyond every
\* buffer), or no footer at its end
Incomplete(buf) ==
  \/ Len(buf) < HEADER_SIZE
  \/ LeadingSize(buf)[1] >= 16384
  \/ Len(buf) < HEADER_SIZE + FromU32(LeadingSize(buf))
  \/ ~ FooterMatches(buf)

\* C25: while no ReadToken is in flight, readData on an incomplete buffer only
\* appends the bytes it received: slot, queue, token table, session state and
\* image buffer stay, and the bytes buffered before stay in front; readData
\* waits exactly when the buffer is incomplete, so the response is handled when
\* later bytes complete it; and when a response is handled the receive buffer
\* is empty afterwards.
C25_IncompleteResponse ==
  /\ [][(ev'.op = "readData" /\ ev'.handler = "await"
           /\ m_currentCommand.packet # PACKET_READ_TOKEN) =>
          (/\ Len(m_buffer') > Len(m_buffer)
           /\ SubSeq(m_buffer', 1, Len(m_buffer)) = m_buffer
           /\ m_buffer' = ev'.buf
           /\ UNCHANGED << m_currentCommand, m_commands, m_tokens, m_state,
                           m_started, m_wasScanning, m_imageData >>)]_vars
  /\ [][(ev'.op = "readData" /\ ev'.handler # "await") => m_buffer' = << >>]_vars
  /\ []((ev.op = "readData" /\ ev.cmd.packet # PACKET_READ_TOKEN) =>
          (ev.handler = "await" <=> Incomplete(ev.buf)))

\* stop() has run and the response to its Stop command is not dispatched yet:
\* the command is queued or in flight and m_started is still true
StopPending ==
  /\ m_started
  /\ \/ Queued(m_commands, Cmd("Stop", TYPE_U16, IntValue(1)))
     \/ CommandEq(m_currentCommand, Cmd("Stop", TYPE_U16, IntValue(1)))

\* C26: between stop() and the dispatch of the Stop response the image-data
\* timer puts nothing into the command queue, also when a response to an
\* earlier ReadData(ImageData) is dispatched in between.
C26_NoPollAfterStop ==
  [][(StopPending /\ ev'.op = "sendImageDataRequest") => m_commands' = m_commands]_vars

\* the image buffer changes only by being emptied or by an ImageData response
\* that appends its payload
OnlyGrowsByPayloads ==
  [][m_imageData' # m_imageData =>
       \/ m_imageData' = << >>
       \/ /\ ImageDataDispatched'
          /\ m_imageData' = m_imageData \o ev'.payload]_vars

\* the last two bytes of the buffer are the end-of-image marker
MarkerAtTail(imageData) ==
  /\ Len(imageData) >= 2
  /\ imageData[Len(imageData) - 1] = 251
  /\ imageData[Len(imageData)] = 255

\* C27 as stated: the image buffer only grows by appended ImageData payloads;
\* it is empty after an ImageData response that puts the end-of-image marker
\* at its tail, and after any SystemState response that changes the state from
\* Scanning to another value.
C27_DrainedOnLeavingScanning ==
  /\ OnlyGrowsByPayloads
  /\ [][(ImageDataDispatched' /\ ev' # ev /\ MarkerAtTail(m_imageData \o ev'.payload)) =>
          m_imageData' = << >>]_vars
  /\ [][(SystemStateDispatched' /\ ev' # ev
           /\ m_state = STATE_SCANNING /\ m_state' # STATE_SCANNING) =>
          m_imageData' = << >>]_vars

\* C27, for Waiting and Stopping: the image buffer only grows by appended
\* ImageData payloads; it is empty after an ImageData response that puts the
\* end-of-image marker at its tail while the state is Waiting and m_wasScanning
\* is true, and after any SystemState response that changes the state from
\* Scanning to Stopping.
C27_DrainedOnStopping ==
  /\ OnlyGrowsByPayloads
  /\ [][(ImageDataDispatched' /\ ev' # ev /\ MarkerAtTail(m_imageData \o ev'.payload)
           /\ m_state = STATE_WAITING /\ m_wasScanning) =>
          m_imageData' = << >>]_vars
  /\ [][(SystemStateDispatched' /\ ev' # ev
           /\ m_state = STATE_SCANNING /\ m_state' = STATE_STOPPING) =>
          m_imageData' = << >>]_vars

\* acquisition is running, the response Stopping was dispatched and the pixel
\* word that had accumulated went to the parser; the buffer is empty
C27_PixelDrained ==
  /\ SystemStateDispatched
  /\ ev.payload = BE32(ToU32(STATE_STOPPING))
  /\ m_state = STATE_STOPPING
  /\ m_started
  /\ parserRuns # << >>
  /\ parserRuns[Len(parserRuns)] = << 170, 0 >>
  /\ m_imageData = << >>

\* the session state: device state, started, wasScanning
SessionState == << m_state, m_started, m_wasScanning >>

\* the step is the dispatch of a SystemState response or of a Start or Stop
\* acknowledgement, and writes the fields that branch writes
DispatcherWrites ==
  \/ /\ SystemStateDispatched'
     /\ m_started' = m_started
  \/ /\ StartDispatched'
     /\ m_started' /\ m_state' = m_state /\ m_wasScanning' = m_wasScanning
  \/ /\ StopDispatched'
     /\ ~ m_started' /\ m_state' = m_state /\ m_wasScanning' = m_wasScanning

\* C28 as stated: the session state changes only in the dispatch of a
\* SystemState response or of a Start or Stop acknowledgement; every other
\* operation leaves the three fields as they are.
C28_SessionStateWriters ==
  [][SessionState' # SessionState => DispatcherWrites]_vars

\* C28, with the two other writers: the session state changes only in the
\* dispatch of a SystemState response or of a Start or Stop acknowledgement, in
\* connectToDevice, which sets the device state to Unknown and started to
\* false, and in the dispatch of an ImageData response that completes an
\* image, which resets wasScanning.
C28_SessionStateWritersAndReset ==
  [][SessionState' # SessionState =>
       \/ DispatcherWrites
       \/ /\ ev'.op = "connectToDevice"
          /\ m_state' = STATE_UNKNOWN
          /\ ~ m_started'
          /\ m_wasScanning' = m_wasScanning
       \/ /\ ImageDataDispatched'
          /\ parserRuns' # parserRuns
          /\ m_wasScanning /\ ~ m_wasScanning'
          /\ m_state' = m_state /\ m_started' = m_started]_vars

\* connectToDevice has run on a driver that had seen the device scanning: the
\* device state is Unknown again and wasScanning is still set
C28_ResetByConnect ==
  /\ ev.op = "connectToDevice"
  /\ m_state = STATE_UNKNOWN
  /\ ~ m_started
  /\ m_wasScanning

\* the step handed a Command or ReadData packet to the transport
RequestWritten ==
  /\ ev'.op = "sendCommand"
  /\ Len(sent') > Len(sent)
  /\ m_currentCommand'.packet \in {PACKET_COMMAND, PACKET_READ_DATA}

C30_ScanLineInvariant ==
  ImageParsed =>
    \A y \in DOMAIN imageRun.image :
      LET line == imageRun.image[y]
      IN /\ line.segments # << >>
         /\ \A k \in DOMAIN line.segments :
              /\ line.segments[k].pixelCount > 0
              /\ line.endX >= line.segments[k].xStart + line.segments[k].pixelCount

\* item i of a stream stands in an open line: a LineStart is before it and no
\* ImageEnd is between the two
InOpenLine(items, i) ==
  \E ls \in 1..(i - 1) :
    /\ items[ls].kind = "LineStart"
    /\ \A k \in (ls + 1)..(i - 1) : items[k].kind # "ImageEnd"

\* position, length and pixels of the segments of the lines of an image
LinesOf(image) ==
  [y \in DOMAIN image |->
     [segments |-> [k \in DOMAIN image[y].segments |->
                      [xStart |-> image[y].segments[k].xStart,
                       pixelCount |-> image[y].segments[k].pixelCount,
                       pixels |-> image[y].segments[k].pixels]],
      endX |-> image[y].endX]]

\* the stream without the Gap items that stand outside an open line
WithoutGapsOutside(items) ==
  LET keep == Ascending({i \in DOMAIN items :
                           items[i].kind = "Gap" => InOpenLine(items, i)})
  IN [k \in 1..Len(keep) |-> items[keep[k]]]

\* C31: the pixel words stored in segments are those that stand in an open
\* line (none from before the first LineStart, none from between an ImageEnd
\* and the next LineStart); a Gap outside an open line is consumed with its
\* operand and leaves the same lines as the stream without it; every LineStart
\* ends the line before it, and the stored lines are those with a pixel.
C31_GatedByOpenLine ==
  ImageParsed =>
    LET image == imageRun.image
        stored == UNION {UNION {Range(image[y].segments[k].pixels) :
                                  k \in DOMAIN image[y].segments} : y \in DOMAIN image}
        kept == {ls \in DOMAIN scan :
                   /\ scan[ls].kind = "LineStart"
                   /\ \E i \in (ls + 1)..(LineEndIndex(scan, ls) - 1) :
                        scan[i].kind = "Pixel"}
    IN /\ stored = {scan[i].arg : i \in {j \in DOMAIN scan :
                                          scan[j].kind = "Pixel" /\ InOpenLine(scan, j)}}
       /\ LinesOf(image) = LinesOf(AssembleImage(EncodeScan(WithoutGapsOutside(scan))))
       /\ Len(image) = Cardinality(kept)
       /\ \A y \in DOMAIN image : image[y].segments # << >>

\* a pixel before the first LineStart, a Gap 65535 outside a line, two
\* LineStart in a row and a pixel: one line with the second pixel at x = 2
C31_OneLineKept ==
  /\ ImageParsed
  /\ scan = << [kind |-> "Pixel", arg |-> PixelValue(1)],
               [kind |-> "Gap", arg |-> 65535],
               [kind |-> "LineStart", arg |-> 2],
               [kind |-> "LineStart", arg |-> 2],
               [kind |-> "Pixel", arg |-> PixelValue(2)] >>
  /\ LinesOf(imageRun.image) =
       << [segments |-> << [xStart |-> 2, pixelCount |-> 1,
                            pixels |-> << PixelValue(2) >>] >>,
           endX |-> 3] >>

(***************************************************************************)
(* The image stream parser on a buffer that ends anywhere: the image       *)
(* buffer holds the first bytes of a scanner's stream, cut at any byte.    *)
(***************************************************************************)
\* items of a stream that is cut
MaxCut == 3

TruncatedInit ==
  /\ socketState = "Connected"
  /\ m_buffer = << >>
  /\ scan \in { Numbered(body) :
                  body \in UNION { [1..n -> ScanItems] : n \in 0..MaxCut } }
  /\ m_imageData \in { SubSeq(EncodeScan(scan), 1, n) : n \in 0..Len(EncodeScan(scan)) }
  /\ m_tokens = [n \in {TOKEN_REQUESTS[i] : i \in 1..Len(TOKEN_REQUESTS)} |-> DeviceToken(n)]
  /\ m_currentCommand = EmptyCommand
  /\ m_commands = << >>
  /\ sinceLastCommand = 0
  /\ m_state = STATE_STOPPING
  /\ m_started = FALSE
  /\ m_wasScanning = TRUE
  /\ dataTimerActive = FALSE
  /\ commandQueueTimerActive = TRUE
  /\ wire = << >>
  /\ rx = << >>
  /\ sent = << >>
  /\ appended = << >>
  /\ parserRuns = << >>
  /\ imageRun = NoImageRun
  /\ m_clientId \in ClientIds
  /\ written = << >>
  /\ ev = NoEvent
  /\ disconnectWait = FALSE
  /\ faults = 0
  /\ userOps = 0
  /\ polls = 0
  /\ reassembly = NoReassembly

TruncatedNext == FlushImage

SpecTruncated == TruncatedInit /\ [][TruncatedNext]_vars

\* the items of a stream that are whole in its first n bytes
WholeItems(items, n) ==
  LET k == CHOOSE j \in 0..Len(items) :
             /\ Len(EncodeScan(SubSeq(items, 1, j))) <= n
             /\ \A i \in (j + 1)..Len(items) : Len(EncodeScan(SubSeq(items, 1, i))) > n
  IN SubSeq(items, 1, k)

\* the offsets at which the loop of processImageData reads a word, and the
\* offset it ends at
RECURSIVE ParsePositions(_, _)
ParsePositions(data, s) ==
  IF s.ptr + UINT16_SIZE > Len(data) THEN << s.ptr >>
  ELSE << s.ptr >> \o ParsePositions(data, ParseWord(data, s))

\* processImageData has run on the cut stream
CutParsed == ev.op = "processImageData" /\ Len(parserRuns) = 1

\* C32: on a stream cut at any byte the parser moves forward with every word
\* and ends inside the buffer; a marker whose operand is cut off, or a Config
\* whose bytes are cut off, ends the parse; the image is that of the items that
\* are whole, the line open at the cut flushed with the pixels collected.
C32_Truncated ==
  CutParsed =>
    LET data == parserRuns[1]
        at == ParsePositions(data, [ptr |-> 0, parsingPixels |-> FALSE,
                                    assembler |-> NewLineAssembler])
    IN /\ \A i \in 1..(Len(at) - 1) : at[i] < at[i + 1]
       /\ at[Len(at)] <= Len(data)
       /\ LinesOf(imageRun.image) = ExpectedImage(WholeItems(scan, Len(data)), TRUE)

\* LineStart 2, a pixel and a Config whose bytes are cut off after the first:
\* the open line is in the image with its pixel
C32_CutInConfig ==
  /\ CutParsed
  /\ scan = << [kind |-> "LineStart", arg |-> 2],
               [kind |-> "Pixel", arg |-> PixelValue(1)],
               [kind |-> "Config", arg |-> Len(ConfigText)] >>
  /\ Len(parserRuns[1]) = 11
  /\ LinesOf(imageRun.image) =
       << [segments |-> << [xStart |-> 2, pixelCount |-> 1,
                            pixels |-> << PixelValue(1) >>] >>,
           endX |-> 3] >>

\* the LineStart items of a stream whose line holds a pixel
LinesWithPixels(items) ==
  {ls \in DOMAIN items :
     /\ items[ls].kind = "LineStart"
     /\ \E i \in (ls + 1)..(LineEndIndex(items, ls) - 1) : items[i].kind = "Pixel"}

\* C33: a frame is emitted exactly when a pixel word of the stream stands in
\* an open line; its height is the number of lines that hold a pixel, it has
\* width * height words, a cell that no segment of its line covers holds
\* 0xFFFF, and a cell that segments cover holds the word that the last of them
\* in list order copied there.
C33_FrameShape ==
  ImageParsed =>
    LET image == imageRun.image
        frame == imageRun.frame
        data == parserRuns[1]
        segs == UNION {{image[y].segments[k] : k \in DOMAIN image[y].segments} :
                         y \in DOMAIN image}
        minLeft == CHOOSE m \in {s.xStart : s \in segs} : \A s \in segs : m <= s.xStart
    IN /\ frame.emitted <=> (\E i \in DOMAIN scan : scan[i].kind = "Pixel" /\ InOpenLine(scan, i))
       /\ ~ frame.emitted => frame.img = << >>
       /\ frame.emitted =>
            /\ frame.height = Cardinality(LinesWithPixels(scan))
            /\ frame.width > 0
            /\ Len(frame.img) = frame.width * frame.height
            /\ \A y \in 1..frame.height : \A c \in 0..(frame.width - 1) :
                 LET line == image[y].segments
                     K == {k \in DOMAIN line :
                             /\ line[k].xStart - minLeft <= c
                             /\ c < line[k].xStart - minLeft + line[k].pixelCount}
                     cell == frame.img[(y - 1) * frame.width + c + 1]
                 IN IF K = {} THEN cell = WHITE
                    ELSE LET last == CHOOSE k \in K : \A j \in K : j <= k
                         IN cell = FromLE16(data, line[last].pixelDataPtr[1]
                                                    + UINT16_SIZE * (c - (line[last].xStart - minLeft)))

\* LineStart 2, a pixel, Gap 65535, a pixel: two segments at x = 2, and the
\* one cell of the frame holds the second pixel
C33_LaterSegmentWins ==
  /\ ImageParsed
  /\ scan = << [kind |-> "LineStart", arg |-> 2],
               [kind |-> "Pixel", arg |-> PixelValue(1)],
               [kind |-> "Gap", arg |-> 65535],
               [kind |-> "Pixel", arg |-> PixelValue(2)] >>
  /\ Len(imageRun.image[1].segments) = 2
  /\ imageRun.frame = [emitted |-> TRUE, img |-> << PixelValue(2) >>,
                       width |-> 1, height |-> 1]

\* C34: the id stored for a name is the token field of the device's response
\* to the ReadToken request for that name, also after timeouts and late or
\* split responses.
C34_TokenAttribution ==
  \A n \in DOMAIN m_tokens : m_tokens[n] = DeviceToken(n)

(***************************************************************************)
(* One reply on an established session: a command is in flight, the        *)
(* device's reply to it arrives in any segmentation, the clock runs and    *)
(* the tick sends the next command.                                        *)
(***************************************************************************)
\* the table holds the names init has asked for before the one in flight
DeliveryInit ==
  /\ socketState = "Connected"
  /\ m_buffer = << >>
  /\ m_imageData = << >>
  /\ m_currentCommand \in {ReadToken("Start"), ReadToken("Stop"), ReadToken("Version"),
                           ReadData("SystemState"), ReadData("ImageData"),
                           Cmd("Start", TYPE_U16, IntValue(1))}
  /\ m_tokens = [n \in (IF m_currentCommand.packet = PACKET_READ_TOKEN
                        THEN {TOKEN_REQUESTS[i] :
                                i \in 1..(IndexOf(TOKEN_REQUESTS, m_currentCommand.name, 1) - 1)}
                        ELSE {TOKEN_REQUESTS[i] : i \in 1..Len(TOKEN_REQUESTS)})
                   |-> DeviceToken(n)]
  /\ m_commands = << ReadData("ModeList") >>
  /\ sinceLastCommand = 0
  /\ m_state = STATE_READY
  /\ m_started = FALSE
  /\ m_wasScanning = FALSE
  /\ dataTimerActive = FALSE
  /\ commandQueueTimerActive = TRUE
  /\ wire = << >>
  /\ rx = IF m_currentCommand = ReadData("SystemState")
          THEN Response(DeviceToken("SystemState"), 7, BE32(ToU32(STATE_SCANNING)))
          ELSE IF m_currentCommand = ReadData("ImageData")
          THEN Response(DeviceToken("ImageData"), 8, << 170, 0 >>)
          ELSE Response(DeviceToken(m_currentCommand.name), 7, << >>)
  /\ sent = << m_currentCommand >>
  /\ appended = << m_currentCommand, ReadData("ModeList") >>
  /\ parserRuns = << >>
  /\ scan = << >>
  /\ imageRun = NoImageRun
  /\ m_clientId \in ClientIds
  /\ written = << >>
  /\ ev = NoEvent
  /\ disconnectWait = FALSE
  /\ faults = 0
  /\ userOps = 0
  /\ polls = 0
  /\ reassembly = NoReassembly

DeliveryNext ==
  \/ ReceiveSome
  \/ Clock
  \/ sendCommand

SpecDelivery == DeliveryInit /\ [][DeliveryNext]_vars

\* C35: when sendCommand hands a packet to the transport the receive buffer is
\* empty.
C35_BufferEmptyAtSend == ev.op = "sendCommand" => m_buffer = << >>

\* what the reply to a command leaves behind when it arrives in one piece:
\* token table, session state, image buffer and in-flight slot
OnePiece(c) ==
  [tokens |-> [n \in (IF c.packet = PACKET_READ_TOKEN
                      THEN {TOKEN_REQUESTS[i] : i \in 1..IndexOf(TOKEN_REQUESTS, c.name, 1)}
                      ELSE {TOKEN_REQUESTS[i] : i \in 1..Len(TOKEN_REQUESTS)})
                 |-> DeviceToken(n)],
   state |-> IF c = ReadData("SystemState") THEN STATE_SCANNING ELSE STATE_READY,
   wasScanning |-> c = ReadData("SystemState"),
   started |-> c = Cmd("Start", TYPE_U16, IntValue(1)),
   imageData |-> IF c = ReadData("ImageData") THEN << 170, 0 >> ELSE << >>,
   slot |-> EmptyCommand]

\* the whole reply has been delivered and no other command has been sent
Delivered == rx = << >> /\ sent = << appended[1] >>

\* C36: once the reply to the command in flight is delivered, token table,
\* session state, image buffer and the cleared slot are those of the delivery
\* in one piece, however the bytes were split into deliveries.
C36_SegmentationIndependent ==
  Delivered =>
    [tokens |-> m_tokens, state |-> m_state, wasScanning |-> m_wasScanning,
     started |-> m_started, imageData |-> m_imageData, slot |-> m_currentCommand]
      = OnePiece(sent[1])

\* C37: when the Start command is handed to the transport, every Mode command
\* that start() has queued has been sent: none is left in the queue.
C37_StartAfterModes ==
  (ev.op = "sendCommand" /\ m_currentCommand = Cmd("Start", TYPE_U16, IntValue(1))) =>
    \A i \in DOMAIN m_commands : m_commands[i].name # "Mode"

(***************************************************************************)
(* Acquisition on an established session with the timers scheduled: the    *)
(* tick and the poll timer fire when they are due, and the device answers  *)
(* every request.                                                          *)
(***************************************************************************)
\* a session after its login and a call of start(): the token table is
\* filled, the tick runs, the start sequence is queued
LiveInit ==
  /\ socketState = "Connected"
  /\ m_buffer = << >>
  /\ m_imageData = << >>
  /\ m_tokens = [n \in {TOKEN_REQUESTS[i] : i \in 1..Len(TOKEN_REQUESTS)} |-> DeviceToken(n)]
  /\ m_currentCommand = EmptyCommand
  /\ \E mode \in Modes :
       /\ m_commands = StartSequence(mode)
       /\ appended = StartSequence(mode)
       /\ ev = [Event("start") EXCEPT !.enq = StartSequence(mode)]
  /\ sinceLastCommand = 0
  /\ m_state = STATE_READY
  /\ m_started = FALSE
  /\ m_wasScanning = FALSE
  /\ dataTimerActive = FALSE
  /\ commandQueueTimerActive = TRUE
  /\ wire = << >>
  /\ rx = << >>
  /\ sent = << >>
  /\ parserRuns = << >>
  /\ scan = << >>
  /\ imageRun = NoImageRun
  /\ m_clientId \in ClientIds
  /\ written = << >>
  /\ disconnectWait = FALSE
  /\ faults = 0
  /\ userOps = 1
  /\ polls = 0
  /\ reassembly = NoReassembly

LiveNext ==
  \/ stop
  \/ sendCommand
  \/ sendImageDataRequest
  \/ Receive

SpecLive ==
  /\ LiveInit
  /\ [][LiveNext]_vars
  /\ WF_vars(sendCommand)
  /\ WF_vars(sendImageDataRequest)
  /\ WF_vars(Receive)

\* the Start command is queued, or the device holds it and has not answered
StartPending ==
  \/ Queued(m_commands, Cmd("Start", TYPE_U16, IntValue(1)))
  \/ \E i \in DOMAIN wire : wire[i].cmd = Cmd("Start", TYPE_U16, IntValue(1))

\* stop() has returned at its test of m_started with a start request pending
StopLost ==
  /\ ev.op = "stop"
  /\ ev.handler = "refused"
  /\ socketState = "Connected"
  /\ ~ m_started
  /\ StartPending

C39_OneRunPerScan ==
  /\ [][parserRuns' # parserRuns =>
          /\ m_wasScanning
          /\ ~ m_wasScanning'
          /\ m_imageData' = << >>
          /\ Len(parserRuns') = Len(parserRuns) + 1
          /\ SubSeq(parserRuns', 1, Len(parserRuns)) = parserRuns
          /\ ev'.op = "readData"
          /\ ev'.handler \in {"ImageData", "SystemState"}]_vars
  /\ [][(~ m_wasScanning /\ m_wasScanning') =>
          /\ ev'.op = "readData"
          /\ ev'.handler = "SystemState"
          /\ ev'.payload = BE32(ToU32(STATE_SCANNING))]_vars
  /\ [][imageRun' # imageRun => parserRuns' # parserRuns]_vars

\* the parser has run twice and Scanning has been reported in between
C39_SecondRun ==
  /\ Len(parserRuns) = 2
  /\ ev.op = "readData"
  /\ ev.handler \in {"ImageData", "SystemState"}
  /\ ~ m_wasScanning

(***************************************************************************)
(* The queue under a silent device: a start sequence is queued on an       *)
(* established session, the tick and the wall clock are fair, the device   *)
(* answers or stays silent, the user may reconnect or disconnect.          *)
(***************************************************************************)
\* variant: the wall clock does not pass half the timeout
ElapseStalls ==
  /\ m_currentCommand.packet # PACKET_UNKNOWN
  /\ sinceLastCommand < TIMEOUT_MS \div 2
  /\ sinceLastCommand' = Min(sinceLastCommand + ClockStep, TIMEOUT_MS)
  /\ UNCHANGED << socketState, m_buffer, m_imageData, m_tokens, m_currentCommand,
                  m_commands, m_state, m_started, m_wasScanning, dataTimerActive,
                  commandQueueTimerActive, wire, rx, sent, appended, parserRuns, scan, imageRun, m_clientId, written,
                  ev, disconnectWait, faults, userOps, polls, reassembly >>

\* QDateTime::currentMSecsSinceEpoch() as sendCommand reads it: the wall clock
\* moves on while a command is in flight, however long the device is silent
Elapse ==
  /\ m_currentCommand.packet # PACKET_UNKNOWN
  /\ sinceLastCommand < TIMEOUT_MS
  /\ sinceLastCommand' = Min(sinceLastCommand + ClockStep, TIMEOUT_MS)
  /\ UNCHANGED << socketState, m_buffer, m_imageData, m_tokens, m_currentCommand,
                  m_commands, m_state, m_started, m_wasScanning, dataTimerActive,
                  commandQueueTimerActive, wire, rx, sent, appended, parserRuns, scan, imageRun, m_clientId, written,
                  ev, disconnectWait, faults, userOps, polls, reassembly >>

QueueNext ==
  \/ sendCommand
  \/ Elapse
  \/ Receive
  \/ DeviceDrop
  \/ connectToDevice
  \/ init
  \/ stop
  \/ disconnectFromDevice
  \/ DisconnectTimeout
  \/ PeerDisconnect

SpecQueue ==
  /\ LiveInit
  /\ [][QueueNext]_vars
  /\ WF_vars(sendCommand)
  /\ WF_vars(Elapse)

\* the places of a session's queue history: a login, a start sequence, and a
\* stop sequence or a poll for each further event
QueuePositions ==
  1 .. (Len(LoginSequence) + Len(StartSequence(0)) + MaxEvents * Len(StopSequence))

\* the k-th command appended in this session has been handed to the transport
Handed(k) == Len(sent) >= k /\ Len(appended) >= k /\ sent[k] = appended[k]

\* the k-th command appended in this session is in the queue
InQueue(k) == Len(appended) >= k /\ Len(sent) < k

\* the queue grows only in a step that calls enqueueCommand, by the commands it
\* appends; a send takes exactly the head
QueueLength ==
  /\ [][Len(m_commands') > Len(m_commands) =>
          /\ ev'.enq # << >>
          /\ EnqueuePost(m_commands, ev'.enq, m_commands')]_vars
  /\ [][sent' # sent /\ sent' # << >> =>
          /\ m_commands # << >>
          /\ sent' = Append(sent, Head(m_commands))
          /\ m_commands' = Tail(m_commands)
          /\ Len(m_commands') = Len(m_commands) - 1]_vars

\* C40 as stated: while the tick runs, every command in the queue is eventually
\* handed to the transport, whatever the device does; the queue grows only by
\* an enqueue and a send shortens it by exactly one.
C40_QueueProgress ==
  /\ \A k \in QueuePositions :
       (commandQueueTimerActive /\ InQueue(k)) ~> (Handed(k) \/ ~ commandQueueTimerActive)
  /\ QueueLength

\* C40: while the tick runs, every command in the queue is eventually handed to
\* the transport, whatever the device does, unless connectToDevice empties the
\* queue first; the queue grows only by an enqueue and a send shortens it by
\* exactly one.
C40_QueueProgressUnlessCleared ==
  /\ \A k \in QueuePositions :
       (commandQueueTimerActive /\ InQueue(k)) ~>
           (Handed(k) \/ ~ commandQueueTimerActive \/ ev.op = "connectToDevice")
  /\ QueueLength

\* the last command of the start sequence went out after two timeouts, the
\* device having answered nothing
C40_SentAfterTimeouts ==
  /\ commandQueueTimerActive
  /\ Len(sent) = 3 /\ sent = appended
  /\ ev.op = "sendCommand" /\ ev.handler = "timeout"

====
